---- MODULE Spec2Model ----
(***************************************************************************)
(* Order orchestration of trade-command.js (executeCommand / main).        *)
(*                                                                         *)
(* One invocation of the CLI is one behaviour: the parsed command, the     *)
(* market of the resolved symbol and the exchange account are chosen in    *)
(* Init, and every await of executeCommand is one action.  The exchange    *)
(* (ccxt.bitget) is the environment: every call may succeed or throw, and  *)
(* an order rejection is either a mode conflict (message containing        *)
(* 'unilateral') or any other failure.                                     *)
(*                                                                         *)
(* Quantities are naturals counted in the smallest amount increment that   *)
(* occurs in the run; the market's amount precision is market.step of      *)
(* these units.  Positions are kept per side (long / short).               *)
(***************************************************************************)
EXTENDS Integers, Sequences, FiniteSets, TLC

\* ---------------------------------------------------------------- bounds
MaxTps == 3
MaxAmount == 3
MaxPos == 1
MaxOpenOrders == 2

\* ------------------------------------------------------------- helpers
\* Math.max
Max(a, b) == IF a > b THEN a ELSE b

\* tp.size of a parsed take-profit entry: absent, "<v>%" or "<v>"
NoSize == [kind |-> "none", v |-> 0]
Pct(p) == [kind |-> "pct", v |-> p]
Abs(n) == [kind |-> "abs", v |-> n]

\* parseCommand: the position mode tokens.  text.includes('hedged') also
\* matches the flag --no-hedged-fallback; text.includes('oneway') also
\* matches the flag --oneway-strict, and is tested after 'hedged'.
ParsePositionMode(tokHedged, tokOneway, strict, noHedgedFallback) ==
  IF tokOneway \/ strict THEN "oneway"
  ELSE IF tokHedged \/ noHedgedFallback THEN "hedged"
  ELSE "undefined"

\* parseCommand: the record built from the tokens of the command text
parseCommand(tok) ==
  [ side |-> tok.side,
    symbol |-> tok.symbol,
    orderType |-> tok.orderType,
    resting |-> tok.resting # "none",
    restingDepth |-> tok.resting = "depth",
    hasAmount |-> tok.hasAmount,
    amount |-> tok.amount,
    sl |-> tok.sl,
    tps |-> tok.tps,
    marginMode |-> tok.marginMode,
    positionMode |-> ParsePositionMode(tok.hedged, tok.oneway, tok.strict,
                                      tok.noHedgedFallback),
    dryRun |-> tok.dryRun,
    closeAll |-> tok.flatten,
    cancelTPs |-> tok.cancel,
    oneWayStrict |-> tok.strict,
    noHedgedFallback |-> tok.noHedgedFallback,
    json |-> tok.json,
    productType |-> IF tok.spot THEN "spot" ELSE "swap",
    spotBorrow |-> tok.borrow,
    spotRepay |-> tok.repay ]

\* exchange.amountToPrecision (ccxt): truncate to the market's amount
\* precision; ccxt throws InvalidOrder when the truncated amount is 0.
amountToPrecision(m, x) == (x \div m.step) * m.step
amountToPrecisionNeverThrows(m, x) == FALSE
amountToPrecisionThrows(m, x) == amountToPrecision(m, x) = 0

\* exchange.fetchPositions([symbol]): one entry per side, zero sizes included
Positions(a) ==
  << [side |-> "long", contracts |-> a.long],
     [side |-> "short", contracts |-> a.short] >>

\* one exchange call as recorded in the run's call log
Call(op, site, mode, side, type, size, ro, hedged, inSl, inTp, idx, res) ==
  [ op |-> op, site |-> site, mode |-> mode, side |-> side, type |-> type,
    size |-> size, reduceOnly |-> ro, hedged |-> hedged,
    inlineSl |-> inSl, inlineTp |-> inTp, idx |-> idx, res |-> res ]
\* a call that is no order
Plain(op, site, mode, size, res) ==
  Call(op, site, mode, "", "", size, FALSE, FALSE, FALSE, FALSE, 0, res)

VARIABLES
  parsed,      \* result of parseCommand(cmdText)
  market,      \* exchange.market(symbol): limits.amount.min, precision.amount
  acct,        \* exchange account: position mode, long / short contracts
  openOrders,  \* open orders of the symbol on the exchange
  calls,       \* state-mutating exchange calls issued so far, in order
  pc,          \* position in executeCommand
  posMode,     \* let posMode
  amount,      \* let amount
  avail,       \* availableContractsLong / availableContractsShort
  baseAmount,  \* const baseAmount
  perDefault,  \* const perDefault
  i,           \* loop index of the extra take-profit loop
  list,        \* positions / open orders being iterated by a maintenance loop
  hedgedFlag,  \* argument of the running flattenOnce
  retry,       \* the flatten runs in the catch block of its first attempt
  open,        \* let open: has the entry order been accepted
  out,         \* what the run wrote to stdout: preview / summary payload
  exitCode,    \* process exit code; -1 while running
  fn           \* a helper function under evaluation: arguments and result

vars == << parsed, market, acct, openOrders, calls, pc, posMode, amount,
           avail, baseAmount, perDefault, i, list, hedgedFlag, retry, open,
           out, exitCode, fn >>

\* ------------------------------------------------- inputs of one run
\* markets: [min |-> limits.amount.min (0: none), step |-> precision.amount]
Markets == { [min |-> 0, step |-> 1], [min |-> 2, step |-> 1],
             [min |-> 2, step |-> 2] }
PlainMarket == [min |-> 0, step |-> 1]

\* take-profit entries as parseCommand yields them.  A target the regular
\* expression lets through but parseFloat cannot read (e.g. "-%") is "bad".
PlainTp == [target |-> "ok", size |-> NoSize]
TpSpecs == { [target |-> "ok", size |-> sz] :
               sz \in {NoSize, Pct(50), Abs(1), Abs(MaxAmount + 1)} }
           \cup { [target |-> "bad", size |-> NoSize] }

RECURSIVE SeqsUpTo(_, _)
SeqsUpTo(S, n) ==
  IF n = 0 THEN { <<>> }
  ELSE LET shorter == SeqsUpTo(S, n - 1)
       IN shorter \cup { Append(s, x) : s \in { t \in shorter : Len(t) = n - 1 }, x \in S }

BaseTok ==
  [ side |-> "long", symbol |-> TRUE, orderType |-> "market", resting |-> "none",
    hasAmount |-> TRUE, amount |-> MaxAmount, sl |-> FALSE, tps |-> <<>>,
    marginMode |-> "undefined", hedged |-> FALSE, oneway |-> FALSE,
    strict |-> FALSE, noHedgedFallback |-> FALSE, dryRun |-> FALSE,
    json |-> FALSE, flatten |-> FALSE, cancel |-> FALSE, spot |-> FALSE,
    borrow |-> FALSE, repay |-> FALSE ]

\* contract trades: every combination of the flow flags
FlowToks ==
  { [BaseTok EXCEPT !.side = f.side, !.dryRun = f.dryRun, !.json = f.json,
                    !.strict = f.strict, !.noHedgedFallback = f.nhf,
                    !.hedged = f.hedged, !.sl = f.sl, !.tps = f.tps] :
      f \in [ side : {"long", "short"}, dryRun : BOOLEAN, json : BOOLEAN,
              strict : BOOLEAN, nhf : BOOLEAN, hedged : BOOLEAN,
              sl : BOOLEAN, tps : { <<>>, <<PlainTp, PlainTp>> } ] }

\* contract trades: every take-profit list, amount and order type
SizingToks ==
  { [BaseTok EXCEPT !.side = f.side, !.orderType = f.orderType,
                    !.hasAmount = (f.amount > 0), !.amount = f.amount,
                    !.tps = <<PlainTp>> \o f.extra] :
      f \in [ side : {"long", "short"}, orderType : {"market", "limit"},
              amount : 0 .. MaxAmount,
              extra : SeqsUpTo(TpSpecs, MaxTps - 1) ] }

\* contract trades with a stop-loss: strict or not, every amount, one to
\* MaxTps unsized targets
ProtectedToks ==
  { [BaseTok EXCEPT !.side = f.side, !.strict = f.strict, !.sl = TRUE,
                    !.amount = f.amount, !.tps = <<PlainTp>> \o f.extra] :
      f \in [ side : {"long", "short"}, strict : BOOLEAN,
              amount : 1 .. MaxAmount,
              extra : SeqsUpTo({PlainTp}, MaxTps - 1) ] }

\* spot trades
SpotToks ==
  { [BaseTok EXCEPT !.spot = TRUE, !.side = f.side, !.dryRun = f.dryRun,
                    !.json = f.json, !.sl = f.sl,
                    !.tps = IF f.sl THEN <<PlainTp>> ELSE <<>>] :
      f \in [ side : {"long", "short"}, dryRun : BOOLEAN, json : BOOLEAN,
              sl : BOOLEAN ] }

\* trades with and without --resting, --resting-depth <depth>
RestingToks ==
  { [BaseTok EXCEPT !.side = f.side, !.orderType = f.orderType,
                    !.resting = f.resting, !.spot = f.spot,
                    !.dryRun = f.dryRun, !.tps = f.tps] :
      f \in [ side : {"long", "short"}, orderType : {"market", "limit"},
              resting : {"none", "flag", "depth"}, spot : BOOLEAN,
              dryRun : BOOLEAN, tps : { <<>>, <<PlainTp, PlainTp>> } ] }

\* maintenance forms: flatten <symbol>, cancel tps <symbol>
MaintToks ==
  { [BaseTok EXCEPT !.side = "undefined", !.hasAmount = FALSE, !.amount = 0,
                    !.flatten = f.flatten, !.cancel = ~f.flatten,
                    !.symbol = f.symbol, !.dryRun = f.dryRun,
                    !.hedged = f.hedged] :
      f \in [ flatten : BOOLEAN, symbol : BOOLEAN, dryRun : BOOLEAN,
              hedged : BOOLEAN ] }

\* spot borrow / repay forms
BorrowToks ==
  { [BaseTok EXCEPT !.side = "undefined", !.spot = f.spot,
                    !.borrow = f.borrow, !.repay = ~f.borrow,
                    !.symbol = f.symbol, !.marginMode = f.marginMode,
                    !.hasAmount = (f.amount > 0), !.amount = f.amount,
                    !.dryRun = f.dryRun] :
      f \in [ spot : BOOLEAN, borrow : BOOLEAN, symbol : BOOLEAN,
              marginMode : {"undefined", "isolated", "cross"},
              amount : {0, MaxAmount}, dryRun : BOOLEAN ] }

\* commands with neither side nor symbol that are no maintenance form
BadToks ==
  { [BaseTok EXCEPT !.side = f.side, !.symbol = f.symbol, !.dryRun = f.dryRun] :
      f \in { g \in [ side : {"undefined", "long"}, symbol : BOOLEAN,
                      dryRun : BOOLEAN ] :
              g.side = "undefined" \/ ~g.symbol } }

Accounts ==
  [ posMode : {"oneway", "hedged"}, long : 0 .. MaxPos, short : 0 .. MaxPos ]
FlatAccounts == { a \in Accounts : a.long = 0 /\ a.short = 0 }

\* open orders found on the exchange: a reduce-only limit order, an order
\* with a tp- client id, a 'profit' plan order, an ordinary limit order and
\* a reduce-only market order (a stop)
ExchangeOrder(site, side, type, size, ro, clientTp, planType) ==
  [ id |-> 0, site |-> site, side |-> side, type |-> type, amount |-> size,
    reduceOnly |-> ro, clientTp |-> clientTp, planType |-> planType ]
FoundOrders ==
  { ExchangeOrder("found", "sell", "limit", 1, TRUE, FALSE, "none"),
    ExchangeOrder("found", "sell", "market", 1, FALSE, TRUE, "none"),
    ExchangeOrder("found", "sell", "market", 1, FALSE, FALSE, "profit"),
    ExchangeOrder("found", "buy", "limit", 1, FALSE, FALSE, "none"),
    ExchangeOrder("found", "sell", "market", 1, TRUE, FALSE, "none") }

WithIds(s) == [k \in 1 .. Len(s) |-> [s[k] EXCEPT !.id = k]]

Scenarios ==
  [ tok : FlowToks, market : {PlainMarket},
    acct : { a \in Accounts : a.long = a.short }, openOrders : { <<>> } ]
  \cup
  [ tok : SizingToks \cup ProtectedToks, market : Markets,
    acct : { a \in FlatAccounts : a.posMode = "oneway" }, openOrders : { <<>> } ]
  \cup
  [ tok : SpotToks \cup BorrowToks \cup BadToks \cup RestingToks, market : {PlainMarket},
    acct : { a \in FlatAccounts : a.posMode = "oneway" }, openOrders : { <<>> } ]
  \cup
  [ tok : MaintToks, market : {PlainMarket}, acct : Accounts,
    openOrders : { WithIds(s) : s \in SeqsUpTo(FoundOrders, MaxOpenOrders) } ]

\* nothing written to stdout yet
\* no helper is being evaluated on its own during a run of the command
NoFn == [op |-> "none"]

NoOut == [kind |-> "none", json |-> FALSE, positionMode |-> "undefined",
          openType |-> "undefined",
          positions |-> FALSE, openOrders |-> FALSE]

Init ==
  \E sc \in Scenarios :
    /\ parsed = parseCommand(sc.tok)
    /\ market = sc.market
    /\ acct = sc.acct
    /\ openOrders = sc.openOrders
    /\ calls = <<>>
    /\ pc = "parse"
    /\ posMode = "undefined"
    /\ amount = 0
    /\ avail = [long |-> 0, short |-> 0]
    /\ baseAmount = 0
    /\ perDefault = 0
    /\ i = 0
    /\ list = <<>>
    /\ hedgedFlag = FALSE
    /\ retry = FALSE
    /\ open = FALSE
    /\ out = NoOut
    /\ exitCode = -1
    /\ fn = NoFn

\* --------------------------------------------------------- the run
\* main: executeCommand threw, 'Command failed', process.exit(1)
Throw == /\ pc' = "exit"
         /\ exitCode' = 1

\* main: executeCommand returned, the process ends with code 0
Return == /\ pc' = "exit"
          /\ exitCode' = 0

Results == {"ok", "unilateral", "other"}
OkOrOther == {"ok", "other"}

\* msg.includes('unilateral'): the failure is a mode conflict
IsModeConflictAny(res) == res # "ok"
IsModeConflict(res) == res = "unilateral"

\* executeCommand: parseCommand and the missing side / symbol check
MissingSymbolOnly(p) == p.side # "undefined" /\ ~p.symbol
MissingSideOrSymbol(p) == p.side = "undefined" \/ ~p.symbol

ParseCheck ==
  /\ pc = "parse"
  /\ IF MissingSideOrSymbol(parsed)
        /\ ~parsed.closeAll /\ ~parsed.cancelTPs
        /\ ~parsed.spotBorrow /\ ~parsed.spotRepay
       THEN Throw
       ELSE pc' = "loadMarkets" /\ UNCHANGED exitCode
  /\ UNCHANGED << fn, parsed, market, acct, openOrders, calls, posMode, amount,
                  avail, baseAmount, perDefault, i, list, hedgedFlag, retry, open, out >>

\* executeCommand: new ccxt.bitget, setSandboxMode, loadMarkets
LoadMarkets ==
  /\ pc = "loadMarkets"
  /\ \E res \in OkOrOther :
       IF res = "ok" THEN pc' = "setPositionMode" /\ UNCHANGED exitCode
                     ELSE Throw
  /\ UNCHANGED << fn, parsed, market, acct, openOrders, calls, posMode, amount,
                  avail, baseAmount, perDefault, i, list, hedgedFlag, retry, open, out >>

\* let posMode = parsed.positionMode || 'oneway'
posModeOf(p) == IF p.positionMode = "undefined" THEN "oneway"
                ELSE p.positionMode

\* executeCommand: posMode and the unconditional setPositionMode(posMode),
\* whose failure is swallowed
SetPositionMode ==
  /\ pc = "setPositionMode"
  /\ LET pm == posModeOf(parsed)
     IN /\ posMode' = pm
        /\ \E res \in OkOrOther :
             /\ calls' = Append(calls, Plain("setPositionMode", "init", pm, 0, res))
             /\ acct' = IF res = "ok" THEN [acct EXCEPT !.posMode = pm] ELSE acct
  /\ pc' = IF parsed.productType = "spot" /\ (parsed.spotBorrow \/ parsed.spotRepay)
             THEN "borrowRepay" ELSE "resolve"
  /\ UNCHANGED << fn, parsed, market, openOrders, amount, avail, baseAmount,
                  perDefault, i, list, hedgedFlag, retry, open, out, exitCode >>

\* executeCommand: spot margin borrow / repay
SpotBorrowRepay ==
  /\ pc = "borrowRepay"
  /\ LET amt == IF parsed.hasAmount THEN parsed.amount ELSE 0
         mode == IF parsed.marginMode = "undefined" THEN "cross"
                 ELSE parsed.marginMode
         op == IF parsed.spotBorrow THEN "borrow" ELSE "repay"
     IN \E loaded \in OkOrOther :
          IF loaded # "ok" \/ amt <= 0 \/ (mode = "isolated" /\ ~parsed.symbol)
            THEN Throw /\ UNCHANGED << calls, out >>
            ELSE \E res \in OkOrOther :
                   /\ calls' = Append(calls, Plain(op, mode, "", amt, res))
                   /\ IF res = "ok"
                        THEN Return /\ out' = [NoOut EXCEPT !.kind = op]
                        ELSE Throw /\ UNCHANGED out
  /\ UNCHANGED << fn, parsed, market, acct, openOrders, posMode, amount, avail,
                  baseAmount, perDefault, i, list, hedgedFlag, retry, open >>

\* executeCommand: ensureContractSymbol / ensureSpotSymbol, exchange.market
ResolveSymbol ==
  /\ pc = "resolve"
  /\ \E found \in BOOLEAN :
       IF ~parsed.symbol \/ ~found
         THEN Throw
         ELSE /\ pc' = IF parsed.closeAll THEN "flatten"
                       ELSE IF parsed.cancelTPs THEN "cancelTPs"
                       ELSE "setLeverage"
              /\ UNCHANGED exitCode
  /\ UNCHANGED << fn, parsed, market, acct, openOrders, calls, posMode, amount,
                  avail, baseAmount, perDefault, i, list, hedgedFlag, retry, open, out >>

\* executeCommand: setLeverage (failure swallowed) and the default amount
SetLeverage ==
  /\ pc = "setLeverage"
  /\ \E res \in OkOrOther :
       calls' = Append(calls, Plain("setLeverage", "init", "", 0, res))
  /\ LET dflt == IF market.min # 0 THEN market.min ELSE market.step
     IN IF parsed.hasAmount
          THEN amount' = parsed.amount /\ pc' = "fetchTicker" /\ UNCHANGED exitCode
          ELSE IF amountToPrecisionThrows(market, dflt)
                 THEN Throw /\ UNCHANGED amount
                 ELSE /\ amount' = amountToPrecision(market, dflt)
                      /\ pc' = "fetchTicker"
                      /\ UNCHANGED exitCode
  /\ UNCHANGED << fn, parsed, market, acct, openOrders, posMode, avail,
                  baseAmount, perDefault, i, list, hedgedFlag, retry, open, out >>

\* executeCommand: fetchTicker, entry price, and the branch that follows
FetchTicker ==
  /\ pc = "fetchTicker"
  /\ \E res \in OkOrOther :
       IF res = "ok"
         THEN /\ pc' = IF parsed.dryRun THEN "preview"
                       ELSE IF parsed.productType = "spot" THEN "spotOrder"
                       ELSE "prepare"
              /\ UNCHANGED exitCode
         ELSE Throw
  /\ UNCHANGED << fn, parsed, market, acct, openOrders, calls, posMode, amount,
                  avail, baseAmount, perDefault, i, list, hedgedFlag, retry, open, out >>

\* toNumberMaybePercent throws on a target parseFloat cannot read
TargetThrows(tp) == tp.target = "bad"

\* let openType = parsed.orderType, and 'limit' once the resting conversion
\* has run: in the preview (effectiveOpenType) and before the contract entry
openType == IF parsed.resting THEN "limit" ELSE parsed.orderType

\* executeCommand: early dry-run preview
DryRunPreview ==
  /\ pc = "preview"
  /\ IF \E k \in 1 .. Len(parsed.tps) : TargetThrows(parsed.tps[k])
       THEN Throw /\ UNCHANGED out
       ELSE /\ Return
            /\ out' = [NoOut EXCEPT !.kind = "preview", !.json = parsed.json,
                                    !.positionMode = posMode,
                                    !.openType = openType]
  /\ UNCHANGED << fn, parsed, market, acct, openOrders, calls, posMode, amount,
                  avail, baseAmount, perDefault, i, list, hedgedFlag, retry, open >>

openSide == IF parsed.side = "long" THEN "buy" ELSE "sell"

\* executeCommand: spot margin trading branch.  Position modes exist for
\* contracts only: a spot order is accepted or fails for another reason.
SpotOrder ==
  /\ pc = "spotOrder"
  /\ \E res \in OkOrOther :
       /\ calls' = Append(calls,
            Call("createOrder", "spot", "", openSide, parsed.orderType,
                 IF parsed.hasAmount THEN parsed.amount ELSE 0,
                 FALSE, FALSE, FALSE, FALSE, 0, res))
       /\ IF res = "ok"
            THEN Return /\ out' = [NoOut EXCEPT !.kind = "spot"]
            ELSE Throw /\ UNCHANGED out
  /\ UNCHANGED << fn, parsed, market, acct, openOrders, posMode, amount, avail,
                  baseAmount, perDefault, i, list, hedgedFlag, retry, open >>

\* ------------------------------------------------ maintenance forms
\* the exchange fills an accepted reduce-only market order in full
Reduce(a, side, qty) ==
  IF side = "long" THEN [a EXCEPT !.long = Max(0, a.long - qty)]
                   ELSE [a EXCEPT !.short = Max(0, a.short - qty)]

\* closeAll: the catch blocks around flattenOnce; both end in 'return'
FlattenCatch(err) ==
  IF ~retry /\ IsModeConflict(err)
    THEN pc' = "flattenSwitch" /\ UNCHANGED exitCode
    ELSE Return

\* flattenOnce: fetchPositions
FlattenFetch ==
  /\ pc = "flatten"
  /\ hedgedFlag' = IF retry THEN TRUE ELSE parsed.positionMode = "hedged"
  /\ \E res \in Results :
       IF res = "ok"
         THEN list' = Positions(acct) /\ pc' = "flattenLoop" /\ UNCHANGED exitCode
         ELSE FlattenCatch(res) /\ UNCHANGED list
  /\ UNCHANGED << fn, parsed, market, acct, openOrders, calls, posMode, amount,
                  avail, baseAmount, perDefault, i, retry, open, out >>

\* flattenOnce: one iteration of the loop over the positions
FlattenStep ==
  /\ pc = "flattenLoop"
  /\ IF list = <<>>
       THEN Return /\ UNCHANGED << list, calls, acct >>
       ELSE LET p == Head(list)
                sideOpp == IF p.side = "long" THEN "sell" ELSE "buy"
                qty == amountToPrecision(market, p.contracts)
            IN IF p.contracts <= 0
                 THEN /\ list' = Tail(list)
                      /\ UNCHANGED << pc, exitCode, calls, acct >>
                 ELSE IF amountToPrecisionThrows(market, p.contracts)
                   THEN FlattenCatch("other") /\ UNCHANGED << list, calls, acct >>
                   ELSE \E res \in Results :
                     /\ calls' = Append(calls,
                          Call("createOrder", "flatten", "", sideOpp, "market",
                               qty, TRUE, hedgedFlag, FALSE, FALSE, 0, res))
                     /\ IF res = "ok"
                          THEN /\ acct' = Reduce(acct, p.side, qty)
                               /\ list' = Tail(list)
                               /\ UNCHANGED << pc, exitCode >>
                          ELSE /\ FlattenCatch(res)
                               /\ UNCHANGED << list, acct >>
  /\ UNCHANGED << fn, parsed, market, openOrders, posMode, amount, avail,
                  baseAmount, perDefault, i, hedgedFlag, retry, open, out >>

\* closeAll: setPositionMode('hedged') before the retry
FlattenSwitch ==
  /\ pc = "flattenSwitch"
  /\ \E res \in OkOrOther :
       /\ calls' = Append(calls, Plain("setPositionMode", "flatten", "hedged", 0, res))
       /\ IF res = "ok"
            THEN /\ acct' = [acct EXCEPT !.posMode = "hedged"]
                 /\ retry' = TRUE
                 /\ pc' = "flatten"
                 /\ UNCHANGED exitCode
            ELSE Return /\ UNCHANGED << acct, retry >>
  /\ UNCHANGED << fn, parsed, market, openOrders, posMode, amount, avail,
                  baseAmount, perDefault, i, list, hedgedFlag, open, out >>

\* cancelTPs: which open orders count as take-profit-like
isTPWithoutPlan(o) == \/ (o.reduceOnly /\ o.type = "limit")
                      \/ o.clientTp
isTP(o) == \/ (o.reduceOnly /\ o.type = "limit")
           \/ o.clientTp
           \/ o.planType = "profit"

\* cancelTPs: fetchOpenOrders; a failure is logged and the command returns
CancelFetch ==
  /\ pc = "cancelTPs"
  /\ \E res \in OkOrOther :
       IF res = "ok"
         THEN list' = openOrders /\ pc' = "cancelLoop" /\ UNCHANGED exitCode
         ELSE Return /\ UNCHANGED list
  /\ UNCHANGED << fn, parsed, market, acct, openOrders, calls, posMode, amount,
                  avail, baseAmount, perDefault, i, hedgedFlag, retry, open, out >>

\* cancelTPs: one iteration of the loop over the open orders
CancelStep ==
  /\ pc = "cancelLoop"
  /\ IF list = <<>>
       THEN Return /\ UNCHANGED << list, calls, openOrders >>
       ELSE LET o == Head(list)
            IN /\ list' = Tail(list)
               /\ UNCHANGED << pc, exitCode >>
               /\ IF isTP(o)
                    THEN \E res \in OkOrOther :
                      /\ calls' = Append(calls,
                           Call("cancelOrder", "cancel", o.planType, o.side,
                                o.type, o.amount, o.reduceOnly, FALSE, FALSE,
                                o.clientTp, o.id, res))
                      /\ openOrders' = IF res = "ok"
                           THEN SelectSeq(openOrders, LAMBDA x : x.id # o.id)
                           ELSE openOrders
                    ELSE UNCHANGED << calls, openOrders >>
  /\ UNCHANGED << fn, parsed, market, acct, posMode, amount, avail, baseAmount,
                  perDefault, i, hedgedFlag, retry, open, out >>

\* ------------------------------------------------- opening a position
\* slPrice / firstTp: attached to the entry unless strict one-way
slInline == ~parsed.oneWayStrict /\ parsed.sl
tpInline == ~parsed.oneWayStrict /\ Len(parsed.tps) > 0

\* const extraTps = parsed.tps.slice(1)
extraTps == IF parsed.tps = <<>> THEN <<>> ELSE Tail(parsed.tps)

\* the exchange fills an accepted entry: a market order in full
Fill(a, side, qty) ==
  IF side = "long" THEN [a EXCEPT !.long = a.long + qty]
                   ELSE [a EXCEPT !.short = a.short + qty]

\* executeCommand: resting conversion, slPrice, firstTp
Prepare ==
  /\ pc = "prepare"
  /\ IF tpInline /\ TargetThrows(parsed.tps[1])
       THEN Throw
       ELSE /\ pc' = IF parsed.oneWayStrict THEN "preFlatten" ELSE "openOrder"
            /\ UNCHANGED exitCode
  /\ UNCHANGED << fn, parsed, market, acct, openOrders, calls, posMode, amount,
                  avail, baseAmount, perDefault, i, list, hedgedFlag, retry,
                  open, out >>

\* strict one-way: fetchPositions before opening; a failure is only logged
PreFlattenFetch ==
  /\ pc = "preFlatten"
  /\ \E res \in OkOrOther :
       IF res = "ok"
         THEN list' = Positions(acct) /\ pc' = "preFlattenLoop"
         ELSE pc' = "openOrder" /\ UNCHANGED list
  /\ UNCHANGED << fn, parsed, market, acct, openOrders, calls, posMode, amount,
                  avail, baseAmount, perDefault, i, hedgedFlag, retry, open,
                  out, exitCode >>

\* strict one-way: one iteration of the loop closing opposite positions
PreFlattenStep ==
  /\ pc = "preFlattenLoop"
  /\ IF list = <<>>
       THEN pc' = "openOrder" /\ UNCHANGED << list, calls, acct >>
       ELSE LET p == Head(list)
                isOpposite == \/ (parsed.side = "long" /\ p.side = "short")
                              \/ (parsed.side = "short" /\ p.side = "long")
                sideOpp == IF p.side = "long" THEN "sell" ELSE "buy"
                qty == amountToPrecision(market, p.contracts)
            IN IF p.contracts <= 0 \/ ~isOpposite
                 THEN list' = Tail(list) /\ UNCHANGED << pc, calls, acct >>
                 ELSE IF amountToPrecisionThrows(market, p.contracts)
                   THEN pc' = "openOrder" /\ UNCHANGED << list, calls, acct >>
                   ELSE \E res \in OkOrOther :
                     /\ calls' = Append(calls,
                          Call("createOrder", "preFlatten", "", sideOpp, "market",
                               qty, TRUE, FALSE, FALSE, FALSE, 0, res))
                     /\ IF res = "ok"
                          THEN /\ acct' = Reduce(acct, p.side, qty)
                               /\ list' = Tail(list)
                               /\ UNCHANGED pc
                          ELSE /\ pc' = "openOrder"
                               /\ UNCHANGED << list, acct >>
  /\ UNCHANGED << fn, parsed, market, openOrders, posMode, amount, avail,
                  baseAmount, perDefault, i, hedgedFlag, retry, open, out,
                  exitCode >>

\* openOrder(paramsExtra): the entry order as submitted to the exchange
EntryCall(site, hedged, res) ==
  Call("createOrder", site,
       IF parsed.oneWayStrict /\ ~hedged THEN "oneWayMode" ELSE "",
       openSide, openType, amount, FALSE, hedged,
       slInline, tpInline, 0, res)

\* the exchange accepts an entry: a market order is filled at once, a limit
\* order is filled or rests among the open orders
Accept(hedged) ==
  \E filled \in (IF openType = "limit" THEN BOOLEAN ELSE {TRUE}) :
    LET qty == amountToPrecision(market, amount)
    IN /\ acct' = IF filled THEN Fill(acct, parsed.side, qty) ELSE acct
       /\ openOrders' = IF filled THEN openOrders
            ELSE Append(openOrders,
                   [ExchangeOrder("entry", openSide, "limit", qty, FALSE, FALSE, "none")
                      EXCEPT !.id = Len(openOrders) + 1])

\* createOrder sends amountToPrecision(amount): no order of size 0 is accepted
EntryResults == IF amountToPrecisionThrows(market, amount)
                  THEN {"other"} ELSE Results

\* executeCommand: open = await openOrder() and its catch block
OpenEntry ==
  /\ pc = "openOrder"
  /\ \E res \in EntryResults :
       /\ calls' = Append(calls, EntryCall("entry", FALSE, res))
       /\ CASE res = "ok" ->
                 /\ Accept(FALSE)
                 /\ open' = TRUE
                 /\ pc' = "fetchAvailable"
                 /\ UNCHANGED exitCode
            [] res # "ok" /\ IsModeConflict(res) /\ ~parsed.oneWayStrict ->
                 /\ pc' = "fallbackSwitch"
                 /\ UNCHANGED << acct, openOrders, open, exitCode >>
            [] res # "ok" /\ IsModeConflict(res) /\ parsed.oneWayStrict ->
                 /\ IF parsed.noHedgedFallback
                      THEN Throw
                      ELSE pc' = "fallbackSwitch" /\ UNCHANGED exitCode
                 /\ UNCHANGED << acct, openOrders, open >>
            [] OTHER ->
                 /\ Throw
                 /\ UNCHANGED << acct, openOrders, open >>
  /\ UNCHANGED << fn, parsed, market, posMode, amount, avail, baseAmount,
                  perDefault, i, list, hedgedFlag, retry, out >>

\* hedged fallback: catch (e2) { throw e2; } and catch (e3) { throw e3; }
RethrowAndReopen == /\ pc' = "openOrder"
                    /\ UNCHANGED exitCode
Rethrow == Throw

\* hedged fallback: setPositionMode('hedged'); a failure is rethrown
FallbackSwitch ==
  /\ pc = "fallbackSwitch"
  /\ \E res \in OkOrOther :
       /\ calls' = Append(calls, Plain("setPositionMode", "fallback", "hedged", 0, res))
       /\ IF res = "ok"
            THEN /\ acct' = [acct EXCEPT !.posMode = "hedged"]
                 /\ pc' = "fallbackOpen"
                 /\ UNCHANGED exitCode
            ELSE Rethrow /\ UNCHANGED acct
  /\ UNCHANGED << fn, parsed, market, openOrders, posMode, amount, avail,
                  baseAmount, perDefault, i, list, hedgedFlag, retry, open, out >>

\* hedged fallback: open = await openOrder({ hedged: true })
FallbackOpen ==
  /\ pc = "fallbackOpen"
  /\ \E res \in EntryResults :
       /\ calls' = Append(calls, EntryCall("entryRetry", TRUE, res))
       /\ IF res = "ok"
            THEN /\ Accept(TRUE)
                 /\ open' = TRUE
                 /\ posMode' = "hedged"
                 /\ pc' = "fetchAvailable"
                 /\ UNCHANGED exitCode
            ELSE Rethrow /\ UNCHANGED << acct, openOrders, open, posMode >>
  /\ UNCHANGED << fn, parsed, market, amount, avail, baseAmount, perDefault, i,
                  list, hedgedFlag, retry, out >>

\* ------------------------------------------- take-profits, stop-loss
availableOf(av) == IF parsed.side = "long" THEN av.long ELSE av.short

\* const perDefault: the equal share of the targets beyond the first
perDefaultOverAll(base) == base \div Len(parsed.tps)
perDefaultOf(base) == base \div Len(extraTps)

\* executeCommand: positionsNow, availableContracts, baseAmount, perDefault
FetchAvailable ==
  /\ pc = "fetchAvailable"
  /\ \E res \in OkOrOther :
       LET av == IF res = "ok" THEN [long |-> acct.long, short |-> acct.short]
                 ELSE [long |-> 0, short |-> 0]
           base == IF availableOf(av) # 0 THEN availableOf(av) ELSE amount
           n == Len(extraTps)
       IN /\ avail' = av
          /\ IF n = 0
               THEN /\ pc' = "slPlan"
                    /\ UNCHANGED << baseAmount, perDefault, i, exitCode >>
               ELSE /\ baseAmount' = base
                    /\ IF amountToPrecisionThrows(market, perDefaultOf(base))
                         THEN Throw /\ UNCHANGED << perDefault, i >>
                         ELSE /\ perDefault' = amountToPrecision(market, perDefaultOf(base))
                              /\ i' = 0
                              /\ pc' = "tpLoop"
                              /\ UNCHANGED exitCode
  /\ UNCHANGED << fn, parsed, market, acct, openOrders, calls, posMode, amount,
                  list, hedgedFlag, retry, open, out >>

\* extra take-profit loop: the size requested for a target
tpSizeOfRemaining(tp) ==
  IF tp.size.kind = "none" THEN perDefault
  ELSE IF tp.size.kind = "pct" THEN (availableOf(avail) * tp.size.v) \div 100
  ELSE tp.size.v
tpSizeOf(tp) ==
  IF tp.size.kind = "none" THEN perDefault
  ELSE IF tp.size.kind = "pct" THEN (baseAmount * tp.size.v) \div 100
  ELSE tp.size.v

\* extra take-profit loop: the requested size clamped to the tracked exposure
Clamp(size, available) == IF size > available THEN available ELSE size

\* extra take-profit loop: a clamped size below limits.amount.min is skipped
BelowMinNever(size) == FALSE
BelowMin(size) == size < market.min

\* extra take-profit loop: where the loop goes after iteration i
AfterTp == IF i + 1 < Len(extraTps) THEN "tpLoop" ELSE "slPlan"

\* extra take-profit loop: what a failed iteration does (catch (tpErr))
TpCaughtBreaks == /\ i' = i + 1
                  /\ pc' = "slPlan"
TpCaught == /\ i' = i + 1
            /\ pc' = AfterTp

\* executeCommand: one iteration of the extra take-profit loop
TpStep ==
  /\ pc = "tpLoop"
  /\ LET tp == extraTps[i + 1]
         tpExecSide == IF parsed.side = "long" THEN "sell" ELSE "buy"
         available == availableOf(avail)
         tpSize == Clamp(tpSizeOf(tp), available)
         placed == amountToPrecision(market, tpSize)
     IN IF TargetThrows(tp)
          THEN TpCaught /\ UNCHANGED << calls, avail, openOrders >>
          ELSE IF BelowMin(tpSize)
            THEN /\ i' = i + 1
                 /\ pc' = AfterTp
                 /\ UNCHANGED << calls, avail, openOrders >>
            ELSE IF amountToPrecisionThrows(market, tpSize)
              THEN TpCaught /\ UNCHANGED << calls, avail, openOrders >>
              ELSE \E res \in OkOrOther :
                /\ calls' = Append(calls,
                     Call("createOrder", "tp", "", tpExecSide, "limit", placed,
                          TRUE, posMode = "hedged", FALSE, FALSE, i + 1, res))
                /\ IF res = "ok"
                     THEN /\ avail' = IF parsed.side = "long"
                               THEN [avail EXCEPT !.long = Max(0, avail.long - placed)]
                               ELSE [avail EXCEPT !.short = Max(0, avail.short - placed)]
                          /\ openOrders' = Append(openOrders,
                               [ExchangeOrder("tp", tpExecSide, "limit", placed, TRUE, TRUE, "none")
                                  EXCEPT !.id = Len(openOrders) + 1])
                          /\ i' = i + 1
                          /\ pc' = AfterTp
                     ELSE TpCaught /\ UNCHANGED << avail, openOrders >>
  /\ UNCHANGED << fn, parsed, market, acct, posMode, amount, baseAmount,
                  perDefault, list, hedgedFlag, retry, open, out, exitCode >>

\* executeCommand: stop-loss as a separate plan when it was not attached
SlPlan ==
  /\ pc = "slPlan"
  /\ IF (~slInline /\ parsed.sl) \/ (parsed.oneWayStrict /\ parsed.sl)
       THEN \E res \in OkOrOther :
              LET slExecSide == IF parsed.side = "long" THEN "sell" ELSE "buy"
              IN /\ calls' = Append(calls,
                      Call("createOrder", "sl", "", slExecSide, "market", amount,
                           FALSE, posMode = "hedged", FALSE, FALSE, 0, res))
                 /\ openOrders' = IF res = "ok"
                      THEN Append(openOrders,
                             [ExchangeOrder("sl", slExecSide, "market", amount, FALSE, FALSE, "loss")
                                EXCEPT !.id = Len(openOrders) + 1])
                      ELSE openOrders
       ELSE UNCHANGED << calls, openOrders >>
  /\ pc' = "summary"
  /\ UNCHANGED << fn, parsed, market, acct, posMode, amount, avail, baseAmount,
                  perDefault, i, list, hedgedFlag, retry, open, out, exitCode >>

\* executeCommand: summary; each fetch failure is swallowed
Summary ==
  /\ pc = "summary"
  /\ \E rp \in OkOrOther, ro \in OkOrOther :
       out' = [ kind |-> "summary", json |-> parsed.json,
                positionMode |-> IF parsed.json THEN posMode ELSE "undefined",
                positions |-> (rp = "ok"), openOrders |-> (ro = "ok") ]
  /\ Return
  /\ UNCHANGED << fn, parsed, market, acct, openOrders, calls, posMode, amount,
                  avail, baseAmount, perDefault, i, list, hedgedFlag, retry, open >>

Next ==
  \/ ParseCheck
  \/ LoadMarkets
  \/ SetPositionMode
  \/ SpotBorrowRepay
  \/ ResolveSymbol
  \/ FlattenFetch
  \/ FlattenStep
  \/ FlattenSwitch
  \/ CancelFetch
  \/ CancelStep
  \/ SetLeverage
  \/ FetchTicker
  \/ DryRunPreview
  \/ SpotOrder
  \/ Prepare
  \/ PreFlattenFetch
  \/ PreFlattenStep
  \/ OpenEntry
  \/ FallbackSwitch
  \/ FallbackOpen
  \/ FetchAvailable
  \/ TpStep
  \/ SlPlan
  \/ Summary

Spec == Init /\ [][Next]_vars

TypeOK ==
  /\ pc \in { "parse", "loadMarkets", "setPositionMode", "borrowRepay", "resolve",
              "flatten", "flattenLoop", "flattenSwitch", "cancelTPs", "cancelLoop",
              "setLeverage", "fetchTicker", "preview", "spotOrder", "prepare",
              "preFlatten", "preFlattenLoop", "openOrder", "fallbackSwitch",
              "fallbackOpen", "fetchAvailable", "tpLoop", "slPlan", "summary",
              "exit" }
  /\ exitCode \in {-1, 0, 1}
  /\ (pc = "exit") = (exitCode # -1)

\* ------------------------------------------- price helpers on their own
\* Prices are integers counted in thousandths of the quote unit; a percent
\* is counted in tenths of a percent, so that '0.5%' is 5.  Entry prices
\* are whole quote units, which keeps entryPrice * (1 + p / 100) exact.
MaxEntry == 3
MaxMag == 2

\* every variable of a run of the command, unused while a helper is
\* evaluated on its own
runVars == << parsed, market, acct, openOrders, calls, pc, posMode, amount,
              avail, baseAmount, perDefault, i, list, hedgedFlag, retry, open,
              out, exitCode >>

Idle ==
  /\ parsed = parseCommand(BaseTok)
  /\ market = PlainMarket
  /\ acct = [posMode |-> "oneway", long |-> 0, short |-> 0]
  /\ openOrders = <<>>
  /\ calls = <<>>
  /\ pc = "idle"
  /\ posMode = "undefined"
  /\ amount = 0
  /\ avail = [long |-> 0, short |-> 0]
  /\ baseAmount = 0
  /\ perDefault = 0
  /\ i = 0
  /\ list = <<>>
  /\ hedgedFlag = FALSE
  /\ retry = FALSE
  /\ open = FALSE
  /\ out = NoOut
  /\ exitCode = -1

\* the text of a stop or target: an optional sign, digits, an optional '%';
\* nan: the digits do not parse ('.', '-')
EntryPrices == { 1000 * k : k \in 1 .. MaxEntry }
PercentVals == [ sign : {"", "-", "+"}, mag : 0 .. MaxMag, pct : {TRUE},
                 nan : {FALSE} ]
PriceVals == [ sign : {"", "-"}, mag : { 1000 * k : k \in 1 .. MaxEntry },
               pct : {FALSE}, nan : BOOLEAN ]

\* parseFloat of the text without its '%'
parseFloat(val) == IF val.sign = "-" THEN 0 - val.mag ELSE val.mag

\* !raw.startsWith('-') && !raw.startsWith('+'), negated
IsSignedMinusOnly(val) == val.sign = "-"
IsSigned(val) == val.sign \in {"-", "+"}

\* const defaultDir = (side === 'long') ? 1 : -1
defaultDirLoss(side) == IF side = "long" THEN 0 - 1 ELSE 1
defaultDir(side) == IF side = "long" THEN 1 ELSE 0 - 1

\* the percent that is applied to the entry price
percentOf(val, side) ==
  IF IsSigned(val) THEN parseFloat(val) ELSE defaultDir(side) * parseFloat(val)

toNumberMaybePercentThrows(val) == val.nan

toNumberMaybePercent(val, entryPrice, side) ==
  IF val.pct
    THEN (entryPrice * (1000 + percentOf(val, side))) \div 1000
    ELSE parseFloat(val)

\* the call sites: the stop (line 371, 504) takes what the sl pattern
\* captures, a target (lines 320, 372, 470) what the tp pattern captures;
\* neither pattern admits a '+'
CallSites == {"sl", "tp", "direct"}
ValsAt(use) ==
  CASE use = "sl" -> { v \in PercentVals \cup PriceVals : v.sign # "+" /\ ~v.nan }
    [] use = "tp" -> { v \in PercentVals \cup PriceVals : v.sign # "+" }
    [] OTHER -> PercentVals \cup PriceVals

InitPrice ==
  /\ Idle
  /\ \E use \in CallSites, side \in {"long", "short"}, e \in EntryPrices :
       \E val \in ValsAt(use) :
         fn = [ op |-> "toNumberMaybePercent", use |-> use, val |-> val,
                entryPrice |-> e, side |-> side, state |-> "call",
                result |-> 0 ]

ApplyToNumberMaybePercent ==
  /\ fn.op = "toNumberMaybePercent"
  /\ fn.state = "call"
  /\ fn' = IF toNumberMaybePercentThrows(fn.val)
             THEN [fn EXCEPT !.state = "threw"]
             ELSE [fn EXCEPT !.state = "returned",
                             !.result = toNumberMaybePercent(fn.val, fn.entryPrice, fn.side)]
  /\ UNCHANGED runVars

\* ----------------------------------------- entry price, resting offset
MaxTicker == 6

\* price side of a market: precision.price as a tick, limits.price.min and
\* limits.price.max (0: undefined), both on the tick grid
PriceMarkets == [ tick : {10, 1000}, minPrice : {0, 1000}, maxPrice : {0, 2000} ]
Tickers == { 500 * k : k \in 1 .. MaxTicker }

\* parsed.restingDepth: absent, a percent in tenths of a percent, or an
\* absolute distance in thousandths
NoDepth == [given |-> FALSE, pct |-> FALSE, mag |-> 0]
Depths == {NoDepth}
          \cup [ given : {TRUE}, pct : {TRUE}, mag : {0, 1, 10, 600} ]
          \cup [ given : {TRUE}, pct : {FALSE}, mag : {0, 10, 500} ]

\* let offset = parsed.restingDepth || '0.5%'
offsetOf(depth) == IF depth.given THEN depth ELSE [given |-> TRUE, pct |-> TRUE, mag |-> 5]

\* Math.max(price, minPrice), Math.min(price, maxPrice) where defined; the
\* price is given in thousandths of a thousandth, the bounds in thousandths
clampPrice(m, num) ==
  LET lo == IF m.minPrice # 0 /\ num < 1000 * m.minPrice THEN 1000 * m.minPrice ELSE num
  IN  IF m.maxPrice # 0 /\ lo > 1000 * m.maxPrice THEN 1000 * m.maxPrice ELSE lo

\* exchange.priceToPrecision (ccxt): round num / 1000 to the nearest tick,
\* halves up; ccxt throws InvalidOrder when the rounded price is 0
priceToPrecision(m, num) == ((2 * num + 1000 * m.tick) \div (2000 * m.tick)) * m.tick
priceToPrecisionThrows(m, num) == priceToPrecision(m, num) = 0

\* parsed.price || candidate, before clamping and rounding
entryCandidate(parsedPrice, candidate) ==
  IF parsedPrice # 0 THEN parsedPrice ELSE candidate

\* entryPrice of lines 288-293
entryPriceOf(m, parsedPrice, candidate) ==
  priceToPrecision(m, clampPrice(m, 1000 * entryCandidate(parsedPrice, candidate)))

\* a long rests below the entry price, a short above it
offsetDirSwapped(side) == IF side = "long" THEN 1 ELSE 0 - 1
offsetDir(side) == IF side = "long" THEN 0 - 1 ELSE 1

\* price of the resting conversion before clamping and rounding, in
\* thousandths of a thousandth
restingRaw(side, entryPrice, offset) ==
  IF offset.pct
    THEN entryPrice * (1000 + offsetDir(side) * offset.mag)
    ELSE 1000 * (entryPrice + offsetDir(side) * offset.mag)

\* entryPrice after the resting conversion
restingPrice(m, side, entryPrice, depth) ==
  priceToPrecision(m, clampPrice(m, restingRaw(side, entryPrice, offsetOf(depth))))

InitResting ==
  /\ Idle
  /\ \E m \in PriceMarkets, side \in {"long", "short"}, c \in Tickers,
        pp \in {0, 1500}, depth \in Depths :
       fn = [ op |-> "resting", market |-> m, side |-> side, candidate |-> c,
              parsedPrice |-> pp, depth |-> depth, state |-> "call",
              entryPrice |-> 0, result |-> 0 ]

\* the entry price of lines 286-293 followed by the resting conversion
ApplyResting ==
  /\ fn.op = "resting"
  /\ fn.state = "call"
  /\ LET m == fn.market
         e0 == clampPrice(m, 1000 * entryCandidate(fn.parsedPrice, fn.candidate))
         e == entryPriceOf(m, fn.parsedPrice, fn.candidate)
         r == clampPrice(m, restingRaw(fn.side, e, offsetOf(fn.depth)))
     IN fn' = IF priceToPrecisionThrows(m, e0)
                THEN [fn EXCEPT !.state = "threw"]
                ELSE IF priceToPrecisionThrows(m, r)
                  THEN [fn EXCEPT !.state = "threw", !.entryPrice = e]
                  ELSE [fn EXCEPT !.state = "returned", !.entryPrice = e,
                                  !.result = restingPrice(m, fn.side, e, fn.depth)]
  /\ UNCHANGED runVars

NextPrice ==
  \/ ApplyToNumberMaybePercent
  \/ ApplyResting

SpecPrice == (InitPrice \/ InitResting) /\ [][NextPrice]_vars

\* --------------------------------------------------- symbol resolution
MaxCatalog == 3

\* a symbol 'BASE/QUOTE' or 'BASE/QUOTE:SETTLE'; lower: typed in lower case
Sym(base, quote, settle, lower) ==
  [base |-> base, quote |-> quote, settle |-> settle, lower |-> lower]

\* one entry of exchange.markets as ccxt lists it: a spot market is named
\* 'BASE/QUOTE', a contract 'BASE/QUOTE:SETTLE', both in upper case
MarketOf(base, quote, type) ==
  [ symbol |-> Sym(base, quote, IF type = "spot" THEN "" ELSE quote, FALSE),
    spot |-> (type = "spot"), contract |-> (type = "swap"), quote |-> quote ]

CatalogMarkets ==
  { MarketOf(b, q, t) : b \in {"BTC", "ETH"}, q \in {"USDT", "USDC"},
                        t \in {"spot", "swap"} }

\* Object.values(exchange.markets): the markets in the exchange's order
Catalogs ==
  { s \in SeqsUpTo(CatalogMarkets, MaxCatalog) :
      \A j, k \in DOMAIN s : j # k => s[j] # s[k] }

\* the symbol as typed: the pattern of line 48 matches 'base/quote' in the
\* lower-cased text
SymbolTokens ==
  { Sym(b, q, "", TRUE) : b \in {"BTC", "ETH", "SOL"}, q \in {"USDT", "USDC"} }

toUpperCase(sym) == [sym EXCEPT !.lower = FALSE]

InSeq(s, x) == \E k \in DOMAIN s : s[k] = x
SymbolsOf(ms) == [k \in DOMAIN ms |-> ms[k].symbol]

\* .filter(m => m.contract && m.quote === 'USDT'), .filter(m => m.spot && ...)
IsOfKind(m, kind) == IF kind = "spot" THEN m.spot ELSE m.contract
IsUsdtOfKind(m, kind) ==
  (IF kind = "spot" THEN m.spot ELSE m.contract) /\ m.quote = "USDT"

UsdtSymbols(cat, kind) ==
  SymbolsOf(SelectSeq(cat, LAMBDA m : IsUsdtOfKind(m, kind)))

\* baseSymbol.includes(':USDT') ? baseSymbol : `${baseSymbol}:USDT`
withContractSuffix(sym) ==
  IF sym.settle = "USDT" THEN sym
  ELSE IF sym.settle = "" THEN [sym EXCEPT !.settle = "USDT"]
  ELSE [sym EXCEPT !.settle = "other:USDT"]

ensureContractSymbolThrows(cat) == UsdtSymbols(cat, "swap") = <<>>

ensureContractSymbol(cat, baseSymbol) ==
  LET contractSymbols == UsdtSymbols(cat, "swap")
      candidate == withContractSuffix(baseSymbol)
  IN  IF InSeq(contractSymbols, candidate) THEN candidate
      ELSE IF InSeq(contractSymbols, baseSymbol) THEN baseSymbol
      ELSE IF InSeq(contractSymbols, Sym("BTC", "USDT", "USDT", FALSE))
        THEN Sym("BTC", "USDT", "USDT", FALSE)
      ELSE contractSymbols[1]

ensureSpotSymbolThrows(cat) == UsdtSymbols(cat, "spot") = <<>>

ensureSpotSymbol(cat, baseSymbol) ==
  LET spotSymbols == UsdtSymbols(cat, "spot")
      candidate == toUpperCase(baseSymbol)
  IN  IF InSeq(spotSymbols, candidate) THEN candidate
      ELSE IF InSeq(spotSymbols, Sym("BTC", "USDT", "", FALSE))
        THEN Sym("BTC", "USDT", "", FALSE)
      ELSE spotSymbols[1]

InitSymbol ==
  /\ Idle
  /\ \E cat \in Catalogs, tok \in SymbolTokens, kind \in {"spot", "swap"} :
       fn = [ op |-> "resolve", catalog |-> cat, token |-> tok,
              productType |-> kind, state |-> "call", result |-> tok ]

\* result.symbol = symMatch[1].toUpperCase(), then ensureContractSymbol
ApplyEnsureContractSymbol ==
  /\ fn.op = "resolve" /\ fn.state = "call" /\ fn.productType = "swap"
  /\ fn' = IF ensureContractSymbolThrows(fn.catalog)
             THEN [fn EXCEPT !.state = "threw"]
             ELSE [fn EXCEPT !.state = "returned",
                     !.result = ensureContractSymbol(fn.catalog, toUpperCase(fn.token))]
  /\ UNCHANGED runVars

\* result.symbol = symMatch[1].toUpperCase(), then ensureSpotSymbol
ApplyEnsureSpotSymbol ==
  /\ fn.op = "resolve" /\ fn.state = "call" /\ fn.productType = "spot"
  /\ fn' = IF ensureSpotSymbolThrows(fn.catalog)
             THEN [fn EXCEPT !.state = "threw"]
             ELSE [fn EXCEPT !.state = "returned",
                     !.result = ensureSpotSymbol(fn.catalog, toUpperCase(fn.token))]
  /\ UNCHANGED runVars

NextSymbol ==
  \/ ApplyEnsureContractSymbol
  \/ ApplyEnsureSpotSymbol

SpecSymbol == InitSymbol /\ [][NextSymbol]_vars

\* ------------------------------------------------ the tp list of a command
MaxList == 3

\* one target as typed: a price or percent, then '@' or ':' and a size
TpItems ==
  { it \in [ target : {"1%", "97000"}, sep : {"", "@", ":"},
             size : {"", "50%", "0.001"} ] : (it.sep = "") = (it.size = "") }

\* what stands after the tp clause in the command text
Followers == {"", "sandbox", "amount 1", "--resting", "--dry-run", "--json",
              "btc/usdt"}

\* the part of the following text that ([0-9a-z@:%.,\s\-]+) still takes in:
\* letters, digits, blanks and '-' belong to the class, '/' does not
CapturedTail(after) == IF after = "btc/usdt" THEN "btc" ELSE after

\* tpMatch[1].split(/[,]+/).map(v => v.trim()).filter(Boolean): the typed
\* items, the last one with the captured tail glued to it
SplitItems(items, after) ==
  IF items = <<>>
    THEN IF CapturedTail(after) = "" THEN <<>>
         ELSE << [target |-> "", sep |-> "", size |-> "", tail |-> CapturedTail(after)] >>
    ELSE [ k \in DOMAIN items |->
             [ target |-> items[k].target, sep |-> items[k].sep,
               size |-> items[k].size,
               tail |-> IF k = Len(items) THEN CapturedTail(after) ELSE "" ] ]

\* /^[0-9.+\-]+%?(?:[@:][0-9.+\-]+%?)?$/.test(v)
ItemPattern(p) == p.target # "" /\ p.tail = ""

\* raw.map(item => ({ target, size, sizePercent }))
ParsedTp(p) ==
  [ target |-> p.target,
    size |-> IF p.size = "" THEN "undefined" ELSE p.size,
    sizePercent |-> p.size = "50%" ]

parseTps(items, after) ==
  LET raw == SelectSeq(SplitItems(items, after), ItemPattern)
  IN  [ k \in DOMAIN raw |-> ParsedTp(raw[k]) ]

InitParse ==
  /\ Idle
  /\ \E items \in SeqsUpTo(TpItems, MaxList), after \in Followers :
       fn = [ op |-> "parseTps", items |-> items, after |-> after,
              state |-> "call", result |-> <<>> ]

ApplyParseTps ==
  /\ fn.op = "parseTps"
  /\ fn.state = "call"
  /\ fn' = [fn EXCEPT !.state = "returned",
                      !.result = parseTps(fn.items, fn.after)]
  /\ UNCHANGED runVars

NextParse ==
  \/ ApplyParseTps

SpecParse == InitParse /\ [][NextParse]_vars

\* ------------------------------------------- rate limiter of the REST client
\* Time is counted in ticks of 500 ms: the window of 1000 ms is two ticks,
\* and a rolling second holds the requests of two consecutive ticks.
MaxNow == 4
RateBudget == 10
WindowTicks == 2

\* private rateLimitRequests = 0; private rateLimitWindow = Date.now()
InitRate ==
  /\ Idle
  /\ fn = [ op |-> "checkRateLimit", now |-> 0, rateLimitWindow |-> 0,
            rateLimitRequests |-> 0, sentNow |-> 0, sentPrev |-> 0,
            last |-> "none" ]

\* the clock moves on by one tick
Tick ==
  /\ fn.op = "checkRateLimit"
  /\ fn.now < MaxNow
  /\ fn' = [fn EXCEPT !.now = fn.now + 1, !.sentPrev = fn.sentNow,
                      !.sentNow = 0, !.last = "none"]
  /\ UNCHANGED runVars

\* if (now - this.rateLimitWindow > 1000)
WindowExpired(now, window) == now - window > WindowTicks

\* request: checkRateLimit, then the request goes out unless it threw
CheckRateLimit ==
  /\ fn.op = "checkRateLimit"
  /\ LET expired == WindowExpired(fn.now, fn.rateLimitWindow)
         window == IF expired THEN fn.now ELSE fn.rateLimitWindow
         requests == IF expired THEN 0 ELSE fn.rateLimitRequests
     IN fn' = IF requests >= RateBudget
                THEN [fn EXCEPT !.rateLimitWindow = window,
                                !.rateLimitRequests = requests,
                                !.last = "BitgetRateLimitError"]
                ELSE [fn EXCEPT !.rateLimitWindow = window,
                                !.rateLimitRequests = requests + 1,
                                !.sentNow = fn.sentNow + 1,
                                !.last = "sent"]
  /\ UNCHANGED runVars

NextRate ==
  \/ Tick
  \/ CheckRateLimit

SpecRate == InitRate /\ [][NextRate]_vars

\* --------------------------------------- position mode of a command
\* commands with every combination of the mode tokens and the two flags
ModeToks ==
  { [BaseTok EXCEPT !.side = f.side, !.hedged = f.hedged, !.oneway = f.oneway,
                    !.strict = f.strict, !.noHedgedFallback = f.nhf,
                    !.dryRun = f.dryRun, !.json = f.json] :
      f \in [ side : {"long", "short"}, hedged : BOOLEAN, oneway : BOOLEAN,
              strict : BOOLEAN, nhf : BOOLEAN, dryRun : BOOLEAN,
              json : BOOLEAN ] }

InitMode ==
  /\ Idle
  /\ \E tok \in ModeToks :
       fn = [ op |-> "parseCommand", tok |-> tok, state |-> "call",
              positionMode |-> "undefined", posMode |-> "undefined" ]

\* parseCommand(cmdText) and the posMode executeCommand derives from it
ApplyParseCommand ==
  /\ fn.op = "parseCommand"
  /\ fn.state = "call"
  /\ fn' = [fn EXCEPT !.state = "returned",
                      !.positionMode = parseCommand(fn.tok).positionMode,
                      !.posMode = posModeOf(parseCommand(fn.tok))]
  /\ UNCHANGED runVars

NextMode ==
  \/ ApplyParseCommand

SpecMode == InitMode /\ [][NextMode]_vars

\* ------------------------------------- dry-run preview and live prices
\* One contract command priced twice from the same ticker: as the dry-run
\* preview prints it and as the live run places it.
PreviewDepths == { NoDepth, [given |-> TRUE, pct |-> TRUE, mag |-> 10],
                   [given |-> TRUE, pct |-> FALSE, mag |-> 500] }
PreviewTargets ==
  { v \in PercentVals \cup PriceVals : v.sign # "+" /\ ~v.nan /\ parseFloat(v) >= 0 }

\* toNumberMaybePercent with its result in thousandths of a thousandth, so
\* that a percent of an off-grid entry price is exact
toNumberMaybePercentExact(val, entryPrice, side) ==
  IF val.pct
    THEN entryPrice * (1000 + percentOf(val, side))
    ELSE 1000 * parseFloat(val)

NoPrices == [openType |-> "", entryPrice |-> 0, tpPrice |-> 0]

InitPreview ==
  /\ Idle
  /\ \E m \in PriceMarkets, side \in {"long", "short"}, c \in Tickers,
        ot \in {"market", "limit"}, resting \in BOOLEAN,
        depth \in PreviewDepths, target \in PreviewTargets :
       fn = [ op |-> "preview", market |-> m, side |-> side, candidate |-> c,
              orderType |-> ot, resting |-> resting, depth |-> depth,
              target |-> target,
              previewed |-> "no", preview |-> NoPrices,
              placed |-> "no", live |-> NoPrices ]

\* the resting conversion throws when the rested price rounds to 0
restingThrows(m, side, entryPrice, depth) ==
  priceToPrecisionThrows(m, clampPrice(m, restingRaw(side, entryPrice, offsetOf(depth))))

\* executeCommand with --dry-run: effectiveOpenType, effectiveEntryPrice
\* and the price of a target in tpsPreview, computed from entryPrice as it
\* is before the resting conversion and printed as computed
ApplyPreview ==
  /\ fn.op = "preview"
  /\ fn.previewed = "no"
  /\ LET m == fn.market
         entryPrice == entryPriceOf(m, 0, fn.candidate)
     IN fn' = IF fn.resting /\ restingThrows(m, fn.side, entryPrice, fn.depth)
                THEN [fn EXCEPT !.previewed = "threw"]
                ELSE [fn EXCEPT !.previewed = "yes", !.preview =
                        [ openType |-> IF fn.resting THEN "limit" ELSE fn.orderType,
                          entryPrice |-> IF fn.resting
                             THEN restingPrice(m, fn.side, entryPrice, fn.depth)
                             ELSE entryPrice,
                          tpPrice |-> toNumberMaybePercentExact(fn.target, entryPrice, fn.side) ]]
  /\ UNCHANGED runVars

\* executeCommand without --dry-run: openType and entryPrice after the
\* resting conversion, and the price a target is placed at: computed from
\* the converted entryPrice and rounded by priceToPrecision
ApplyLive ==
  /\ fn.op = "preview"
  /\ fn.placed = "no"
  /\ LET m == fn.market
         entryPrice == entryPriceOf(m, 0, fn.candidate)
         rested == IF fn.resting
                     THEN restingPrice(m, fn.side, entryPrice, fn.depth)
                     ELSE entryPrice
         tpPrice == toNumberMaybePercentExact(fn.target, rested, fn.side)
     IN fn' = IF fn.resting /\ restingThrows(m, fn.side, entryPrice, fn.depth)
                THEN [fn EXCEPT !.placed = "threw"]
                ELSE IF priceToPrecisionThrows(m, tpPrice)
                  THEN [fn EXCEPT !.placed = "entryOnly", !.live =
                          [ openType |-> IF fn.resting THEN "limit" ELSE fn.orderType,
                            entryPrice |-> rested, tpPrice |-> 0 ]]
                  ELSE [fn EXCEPT !.placed = "yes", !.live =
                          [ openType |-> IF fn.resting THEN "limit" ELSE fn.orderType,
                            entryPrice |-> rested,
                            tpPrice |-> priceToPrecision(m, tpPrice) ]]
  /\ UNCHANGED runVars

NextPreview ==
  \/ ApplyPreview
  \/ ApplyLive

SpecPreview == InitPreview /\ [][NextPreview]_vars

\* ------------------------------- MCP tool placeEntryWithTPSLPlans
MaxPlans == 3

\* the arguments that decide the steps of the handler: setMarginMode and
\* marginMode, stopLoss.triggerPrice, the number of takeProfits
ToolArgs ==
  [ setMarginMode : BOOLEAN, marginMode : BOOLEAN, stopLoss : BOOLEAN,
    takeProfits : 0 .. MaxPlans ]

\* one call of the handler on the Bitget client
ToolCall(kind, idx, res) == [kind |-> kind, idx |-> idx, res |-> res]

InitTool ==
  /\ Idle
  /\ \E args \in ToolArgs :
       fn = [ op |-> "placeEntryWithTPSLPlans", args |-> args,
              pc |-> "setMarginMode", i |-> 0, log |-> <<>>,
              accepted |-> {}, isError |-> FALSE ]

IsTool == fn.op = "placeEntryWithTPSLPlans"

\* where the handler goes once the entry, the stop-loss or take-profit
\* number i has been dealt with
AfterPlan(f, done) ==
  IF done = "entry" /\ f.args.stopLoss THEN "sl"
  ELSE IF done \in {"entry", "sl"}
    THEN (IF f.args.takeProfits > 0 THEN "tp" ELSE "positions")
  ELSE IF f.i + 1 < f.args.takeProfits THEN "tp" ELSE "positions"

\* catch (error): the tool returns { isError: true }
ToolCatchGoesOn(f, done) == [f EXCEPT !.pc = AfterPlan(f, done)]
ToolCatch(f, done) == [f EXCEPT !.pc = "returned", !.isError = TRUE]

\* if (setMarginMode && marginMode) try { setMarginMode } catch {}
ToolSetMarginMode ==
  /\ IsTool /\ fn.pc = "setMarginMode"
  /\ IF fn.args.setMarginMode /\ fn.args.marginMode
       THEN \E res \in OkOrOther :
              fn' = [fn EXCEPT !.pc = "getMarginInfo",
                               !.log = Append(@, ToolCall("setMarginMode", 0, res))]
       ELSE fn' = [fn EXCEPT !.pc = "getMarginInfo"]
  /\ UNCHANGED runVars

\* if (!effectiveMarginMode) try { getMarginInfo } catch {}
ToolGetMarginInfo ==
  /\ IsTool /\ fn.pc = "getMarginInfo"
  /\ IF ~fn.args.marginMode
       THEN \E res \in OkOrOther :
              fn' = [fn EXCEPT !.pc = "entry",
                               !.log = Append(@, ToolCall("getMarginInfo", 0, res))]
       ELSE fn' = [fn EXCEPT !.pc = "entry"]
  /\ UNCHANGED runVars

\* one of the placing steps: the call is logged; an accepted order stays
\* on the exchange, a failure throws to the catch of the handler
PlaceStep(kind, idx) ==
  \E res \in OkOrOther :
    LET logged == [fn EXCEPT !.log = Append(@, ToolCall(kind, idx, res))]
    IN fn' = IF res = "ok"
               THEN [logged EXCEPT !.accepted = @ \cup { <<kind, idx>> },
                                   !.i = IF kind = "tp" THEN fn.i + 1 ELSE fn.i,
                                   !.pc = AfterPlan(fn, kind)]
               ELSE ToolCatch(logged, kind)

\* const order = await this.bitgetClient.placeOrder(...)
ToolEntry ==
  /\ IsTool /\ fn.pc = "entry"
  /\ PlaceStep("entry", 0)
  /\ UNCHANGED runVars

\* if (stopLoss?.triggerPrice) await placeFuturesTPSL(pos_loss)
ToolStopLoss ==
  /\ IsTool /\ fn.pc = "sl"
  /\ PlaceStep("sl", 0)
  /\ UNCHANGED runVars

\* for (const [i, tp] of takeProfits.entries()) await placeFuturesTPSL(profit_plan)
ToolTakeProfit ==
  /\ IsTool /\ fn.pc = "tp"
  /\ PlaceStep("tp", fn.i + 1)
  /\ UNCHANGED runVars

\* summary: getFuturesPositions, then getFuturesPlanOrders, then the result
ToolPositions ==
  /\ IsTool /\ fn.pc = "positions"
  /\ \E res \in OkOrOther :
       LET logged == [fn EXCEPT !.log = Append(@, ToolCall("positions", 0, res))]
       IN fn' = IF res = "ok" THEN [logged EXCEPT !.pc = "plans"]
                ELSE [logged EXCEPT !.pc = "returned", !.isError = TRUE]
  /\ UNCHANGED runVars

ToolPlans ==
  /\ IsTool /\ fn.pc = "plans"
  /\ \E res \in OkOrOther :
       LET logged == [fn EXCEPT !.log = Append(@, ToolCall("plans", 0, res))]
       IN fn' = IF res = "ok" THEN [logged EXCEPT !.pc = "returned"]
                ELSE [logged EXCEPT !.pc = "returned", !.isError = TRUE]
  /\ UNCHANGED runVars

NextTool ==
  \/ ToolSetMarginMode
  \/ ToolGetMarginInfo
  \/ ToolEntry
  \/ ToolStopLoss
  \/ ToolTakeProfit
  \/ ToolPositions
  \/ ToolPlans

SpecTool == InitTool /\ [][NextTool]_vars

\* ------------------------------------------------------------ claims
IsTrade == /\ parsed.side # "undefined" /\ parsed.symbol
           /\ ~parsed.closeAll /\ ~parsed.cancelTPs
           /\ ~parsed.spotBorrow /\ ~parsed.spotRepay

CallsAt(site) == SelectSeq(calls, LAMBDA c : c.site = site)
PlacedTps == SelectSeq(calls, LAMBDA c : c.site = "tp" /\ c.res = "ok")
EntryAccepted(c) == c.site \in {"entry", "entryRetry"} /\ c.res = "ok"
AllUnsized(tps) == \A k \in DOMAIN tps : tps[k].size.kind = "none"

\* C1: a trade command that carries --dry-run issues no state-mutating
\* exchange call (set-position-mode, set-leverage, order, borrow, repay)
\* before the preview, and the run that prints the preview exits 0.
C1_DryRunNoMutatingCall ==
  (IsTrade /\ parsed.dryRun) =>
     /\ calls = <<>>
     /\ (out.kind = "preview" => exitCode = 0)

\* C2: under --dry-run no order is created or cancelled and nothing is
\* borrowed or repaid, the maintenance and borrow / repay forms included.
C2_DryRunNoOrderNoBorrow ==
  parsed.dryRun =>
     \A k \in DOMAIN calls :
        calls[k].op \notin {"createOrder", "cancelOrder", "borrow", "repay"}

\* C3: when the entry is rejected with a mode conflict and the hedged
\* fallback is allowed, the run asks for hedged mode, resubmits the entry
\* with the hedged flag once the switch went through, and an accepted
\* resubmission ends in exit 0 with the summary reporting hedged mode.
C3_HedgedFallbackCompletes ==
  LET e == CallsAt("entry")
      sw == CallsAt("fallback")
      r == CallsAt("entryRetry")
  IN (pc = "exit" /\ e # <<>> /\ e[1].res = "unilateral"
        /\ ~parsed.noHedgedFallback) =>
       /\ Len(sw) = 1 /\ sw[1].mode = "hedged"
       /\ (sw[1].res = "ok" => (Len(r) = 1 /\ r[1].hedged))
       /\ ((r # <<>> /\ r[1].res = "ok") =>
             /\ exitCode = 0
             /\ posMode = "hedged"
             /\ out.kind = "summary"
             /\ (parsed.json => out.positionMode = "hedged"))

\* C4: with --no-hedged-fallback a mode conflict on the entry is propagated
\* at once: no switch to hedged mode, no resubmission, exit code 1.
C4_NoFallbackWhenDisabled ==
  parsed.noHedgedFallback =>
     /\ CallsAt("fallback") = <<>>
     /\ CallsAt("entryRetry") = <<>>
     /\ (pc = "exit" /\ CallsAt("entry") # <<>>
           /\ CallsAt("entry")[1].res = "unilateral" => exitCode = 1)

\* C5: an entry failure that is no mode conflict is fatal: the entry was
\* submitted once, nothing is called after it (no mode switch, no stop-loss
\* or take-profit order), and the process exits with code 1.
C5_OtherEntryFailureFatal ==
  \A k \in DOMAIN calls :
     (calls[k].site \in {"entry", "spot"} /\ calls[k].res = "other") =>
        /\ k = Len(calls)
        /\ Cardinality({ j \in DOMAIN calls :
              calls[j].site \in {"entry", "entryRetry", "spot"} }) = 1
        /\ \A j \in DOMAIN calls : calls[j].site \notin {"fallback", "tp", "sl"}
        /\ pc = "exit"
        /\ exitCode = 1

C5_Witness ==
  /\ pc = "exit" /\ exitCode = 1
  /\ calls # <<>>
  /\ calls[Len(calls)].site = "entry"
  /\ calls[Len(calls)].res = "other"
  /\ Len(parsed.tps) > 1 /\ parsed.sl

\* C6: once the entry of a contract trade is accepted the run reaches the
\* summary and exits 0 whatever fails afterwards, and no order closing the
\* opened entry follows.
C6_AcceptedEntryReachesSummary ==
  /\ (open /\ pc = "exit") => (exitCode = 0 /\ out.kind = "summary")
  /\ \A j, k \in DOMAIN calls :
        (j < k /\ EntryAccepted(calls[j])) =>
           calls[k].site \notin {"flatten", "preFlatten"}

\* C7: every iteration of the take-profit loop, whatever its outcome, hands
\* over to the next target in order (or to the stop-loss step after the
\* last one): a failing target never ends the loop or the run.
C7_TpTargetsIndependent ==
  [][ pc = "tpLoop" =>
        /\ i' = i + 1
        /\ exitCode' = -1
        /\ pc' = IF i + 1 < Len(extraTps) THEN "tpLoop" ELSE "slPlan" ]_vars

C7_Witness ==
  \E a, b \in DOMAIN calls :
     /\ a < b
     /\ calls[a].site = "tp" /\ calls[a].res = "other"
     /\ calls[b].site = "tp" /\ calls[b].idx > calls[a].idx

\* sizes of the take-profits in force for the position: the separate
\* reduce-only orders, and the target attached to a filled entry, which
\* covers the whole entry
RECURSIVE TpCover(_)
TpCover(s) ==
  IF s = <<>> THEN 0
  ELSE LET c == Head(s)
       IN (IF c.site = "tp" /\ c.res = "ok" THEN c.size
           ELSE IF EntryAccepted(c) /\ c.inlineTp
                   /\ \A o \in DOMAIN openOrders : openOrders[o].site # "entry"
                  THEN amountToPrecision(market, c.size)
           ELSE 0) + TpCover(Tail(s))

\* C8: the take-profit sizes placed for the position never add up to more
\* than the position's exposure, and a request above the available
\* exposure is placed at the available exposure.
C8_TpSumWithinExposure ==
  /\ [](open => TpCover(calls) <= availableOf(acct))
  /\ [][ (/\ pc = "tpLoop"
          /\ ~TargetThrows(extraTps[i + 1])
          /\ tpSizeOf(extraTps[i + 1]) > availableOf(avail)
          /\ availableOf(avail) >= market.min
          /\ ~amountToPrecisionThrows(market, availableOf(avail)))
         => /\ Len(calls') = Len(calls) + 1
            /\ calls'[Len(calls')].site = "tp"
            /\ calls'[Len(calls')].size = amountToPrecision(market, availableOf(avail)) ]_vars

\* C9: a take-profit target whose resolved (clamped) size is below the
\* market's minimum order size is skipped: no order, tracked exposure
\* unchanged, and the loop goes on with the next target.
C9_BelowMinSkipped ==
  [][ (/\ pc = "tpLoop"
       /\ ~TargetThrows(extraTps[i + 1])
       /\ Clamp(tpSizeOf(extraTps[i + 1]), availableOf(avail)) < market.min)
      => /\ calls' = calls
         /\ openOrders' = openOrders
         /\ avail' = avail
         /\ i' = i + 1
         /\ exitCode' = -1
         /\ pc' = IF i + 1 < Len(extraTps) THEN "tpLoop" ELSE "slPlan" ]_vars

C9_Witness ==
  /\ market.min = 2
  /\ Len(extraTps) = 2
  /\ extraTps[1] = [target |-> "ok", size |-> Abs(1)]
  /\ \A k \in DOMAIN calls : ~(calls[k].site = "tp" /\ calls[k].idx = 1)
  /\ \E k \in DOMAIN calls :
        calls[k].site = "tp" /\ calls[k].idx = 2 /\ calls[k].res = "ok"

UnsignedPercentAt(use) ==
  /\ fn.op = "toNumberMaybePercent" /\ fn.state = "returned"
  /\ fn.use = use /\ fn.val.pct /\ fn.val.sign = ""

\* C11: an unsigned percent stop ('sl 1%') resolves in the loss direction:
\* below the entry price for a long, above it for a short
C11_UnsignedSlLossDirection ==
  (UnsignedPercentAt("sl") /\ fn.val.mag > 0) =>
     /\ (fn.side = "long" => fn.result < fn.entryPrice)
     /\ (fn.side = "short" => fn.result > fn.entryPrice)

\* C12: an unsigned percent target resolves in the profitable direction:
\* never below the entry price for a long, never above it for a short, and
\* for a percent other than zero strictly above, strictly below
C12_UnsignedTpProfitDirection ==
  UnsignedPercentAt("tp") =>
     /\ (fn.side = "long" => fn.result >= fn.entryPrice)
     /\ (fn.side = "short" => fn.result <= fn.entryPrice)
     /\ (fn.val.mag > 0 /\ fn.side = "long" => fn.result > fn.entryPrice)
     /\ (fn.val.mag > 0 /\ fn.side = "short" => fn.result < fn.entryPrice)

C12_Witness ==
  /\ UnsignedPercentAt("tp") /\ fn.val.mag > 0
  /\ fn.side = "short" /\ fn.result < fn.entryPrice

\* C13: a percent with an explicit '+' or '-' resolves to
\* entryPrice * (1 + signedPercent / 100) whatever the side
C13_SignedPercentIgnoresSide ==
  ( /\ fn.op = "toNumberMaybePercent" /\ fn.state = "returned"
    /\ fn.val.pct /\ fn.val.sign \in {"+", "-"} ) =>
     LET signed == IF fn.val.sign = "-" THEN 0 - fn.val.mag ELSE fn.val.mag
     IN  1000 * fn.result = fn.entryPrice * (1000 + signed)

C13_Witness ==
  /\ fn.op = "toNumberMaybePercent" /\ fn.state = "returned"
  /\ fn.val.pct /\ fn.val.sign = "+" /\ fn.val.mag > 0
  /\ fn.side = "short" /\ fn.result > fn.entryPrice

\* C14: when resting is requested the effective open type is 'limit', in
\* the dry-run preview and in every entry order of a live run
C14_RestingOpensWithLimit ==
  (IsTrade /\ parsed.resting) =>
     /\ (out.kind = "preview" => out.openType = "limit")
     /\ \A k \in DOMAIN calls :
          calls[k].site \in {"entry", "entryRetry", "spot"} =>
            calls[k].type = "limit"

\* the resting conversion has produced a price for a Market entry (no price
\* in the command) with an offset of positive depth
RestedMarketEntry ==
  /\ fn.op = "resting" /\ fn.state = "returned"
  /\ fn.parsedPrice = 0
  /\ offsetOf(fn.depth).mag > 0

WithinPriceBounds(m, price) ==
  /\ (m.minPrice # 0 => price >= m.minPrice)
  /\ (m.maxPrice # 0 => price <= m.maxPrice)

\* C15 as stated: the rested price is strictly below the fetched market
\* price for a long, strictly above it for a short, and within the bounds
C15_RestingStrictlyAwayFromMarket ==
  RestedMarketEntry =>
     /\ (fn.side = "long" => fn.result < fn.candidate)
     /\ (fn.side = "short" => fn.result > fn.candidate)
     /\ WithinPriceBounds(fn.market, fn.result)

\* C15 amended: the rested price is never on the near side of the entry
\* price (the fetched price clamped and rounded) and lies within the bounds;
\* it is strictly away from the fetched price when that price and the offset
\* price lie within the bounds and the offset is at least one tick
C15_RestingAwayUpToClampAndTick ==
  RestedMarketEntry =>
     LET m == fn.market
         raw == restingRaw(fn.side, fn.entryPrice, offsetOf(fn.depth))
         moved == IF raw < 1000 * fn.entryPrice THEN 1000 * fn.entryPrice - raw
                                                ELSE raw - 1000 * fn.entryPrice
         free == /\ WithinPriceBounds(m, fn.candidate)
                 /\ clampPrice(m, raw) = raw
                 /\ moved >= 1000 * m.tick
     IN /\ (fn.side = "long" => fn.result <= fn.entryPrice)
        /\ (fn.side = "short" => fn.result >= fn.entryPrice)
        /\ WithinPriceBounds(m, fn.result)
        /\ (free /\ fn.side = "long" => fn.result < fn.candidate)
        /\ (free /\ fn.side = "short" => fn.result > fn.candidate)

C15_Witness ==
  /\ RestedMarketEntry /\ ~fn.depth.given
  /\ fn.side = "long" /\ fn.result < fn.candidate
  /\ fn.market.minPrice # 0

\* a flatten command has run to its end: the closeAll block returned
FlattenDone == parsed.closeAll /\ pc = "exit" /\ exitCode = 0

FlattenOrders ==
  SelectSeq(calls, LAMBDA c : c.site = "flatten" /\ c.op = "createOrder")

OppositeOf(side) == IF side = "long" THEN "sell" ELSE "buy"

\* the close orders the flatten submitted against one side's position
ClosesOf(side) ==
  SelectSeq(calls, LAMBDA c : /\ c.site = "flatten" /\ c.op = "createOrder"
                              /\ c.side = OppositeOf(side))
SwitchesOfFlatten ==
  SelectSeq(calls, LAMBDA c : c.site = "flatten" /\ c.op = "setPositionMode")

\* the side had a position of non-zero size when the flatten began: it
\* still has, or one of the close orders was accepted
HadPosition(side) ==
  \/ acct[side] > 0
  \/ \E k \in DOMAIN ClosesOf(side) : ClosesOf(side)[k].res = "ok"

NoModeConflict ==
  \A k \in DOMAIN FlattenOrders : FlattenOrders[k].res # "unilateral"

\* C16: a flatten that submitted an order and met no mode conflict has
\* submitted exactly one reduce-only market order, on the opposing
\* side and at full size, for each position of non-zero size, and nothing
\* for a position of size zero; without any position it ends with no order
C16_OneCloseOrderPerPosition ==
  (FlattenDone /\ NoModeConflict /\ SwitchesOfFlatten = <<>>) =>
     /\ \A side \in {"long", "short"} :
          IF HadPosition(side)
            THEN FlattenOrders # <<>> =>
                   /\ Len(ClosesOf(side)) = 1
                   /\ ClosesOf(side)[1].type = "market"
                   /\ ClosesOf(side)[1].reduceOnly
                   /\ (ClosesOf(side)[1].res = "ok" => acct[side] = 0)
                   /\ (ClosesOf(side)[1].res # "ok" =>
                         ClosesOf(side)[1].size = acct[side])
            ELSE ClosesOf(side) = <<>>
     /\ (~HadPosition("long") /\ ~HadPosition("short") => FlattenOrders = <<>>)

\* the retry of a flatten has failed: the last call of the run is a close
\* order of the retry that the exchange rejected
FlattenRetryFailed ==
  /\ parsed.closeAll /\ pc = "exit" /\ retry /\ FlattenOrders # <<>>
  /\ calls[Len(calls)].op = "createOrder"
  /\ calls[Len(calls)].res # "ok"

\* C17: on a mode conflict the flatten switches to hedged at most once and
\* retries once; when the retry fails too the process exits non-zero
C17_FlattenRetryFailureFatal ==
  (parsed.closeAll /\ pc = "exit") =>
     /\ Len(SwitchesOfFlatten) <= 1
     /\ \A side \in {"long", "short"} : Len(ClosesOf(side)) <= 2
     /\ (FlattenRetryFailed => exitCode # 0)

\* C18: a close order that fails does not keep the flatten from trying to
\* close every other position of non-zero size
C18_FlattenPositionsIndependent ==
  (FlattenDone /\ FlattenOrders # <<>>) =>
     \A side \in {"long", "short"} :
        HadPosition(side) => ClosesOf(side) # <<>>

\* the cancel calls issued for the open order with a given id
CancelsOf(id) ==
  SelectSeq(calls, LAMBDA c : c.op = "cancelOrder" /\ c.idx = id)

\* the orders the loop of cancelTPs has not reached yet
RemainingIds == { list[k].id : k \in DOMAIN list }

\* take-profit-like as the claim has it: reduce-only and limit, or a client
\* id with the tp prefix, or the plan type 'profit'
TpLike(reduceOnly, type, clientTp, planType) ==
  (reduceOnly /\ type = "limit") \/ clientTp \/ planType = "profit"

\* C19: while cancel-TPs walks the open orders, every take-profit-like
\* order it has passed got exactly one cancel call, whether or not other
\* cancels failed, and no other order got one
C19_CancelsExactlyTpLike ==
  (pc = "cancelLoop") =>
     /\ \A k \in DOMAIN openOrders :
          LET o == openOrders[k]
          IN  o.id \notin RemainingIds =>
                Len(CancelsOf(o.id)) =
                  (IF TpLike(o.reduceOnly, o.type, o.clientTp, o.planType)
                     THEN 1 ELSE 0)
     /\ \A k \in DOMAIN calls :
          LET c == calls[k]
          IN  c.op = "cancelOrder" =>
                /\ TpLike(c.reduceOnly, c.type, c.inlineTp, c.mode)
                /\ Len(CancelsOf(c.idx)) = 1
                /\ c.idx \notin RemainingIds
                /\ (c.res = "ok" =>
                      \A j \in DOMAIN openOrders : openOrders[j].id # c.idx)

\* the first cancel failed, the second was still attempted and accepted
C19_Witness ==
  /\ pc = "cancelLoop" /\ list = <<>>
  /\ \E j, k \in DOMAIN calls :
       /\ j < k
       /\ calls[j].op = "cancelOrder" /\ calls[j].res = "other"
       /\ calls[k].op = "cancelOrder" /\ calls[k].res = "ok"
       /\ calls[k].mode = "profit"

\* the USDT-quoted symbols of the requested product type, in catalog order
CatalogOfKind ==
  SymbolsOf(SelectSeq(fn.catalog,
    LAMBDA m : /\ m.quote = "USDT"
               /\ (IF fn.productType = "spot" THEN m.spot ELSE m.contract)))

\* the four choices of the claim in its order: the requested symbol itself,
\* the requested symbol with ':USDT' appended, the fixed fallback, the first
\* symbol of the catalog
ResolutionChoices ==
  LET requested == [fn.token EXCEPT !.lower = FALSE]
  IN  << requested,
         [requested EXCEPT !.settle = "USDT"],
         IF fn.productType = "spot" THEN Sym("BTC", "USDT", "", FALSE)
                                    ELSE Sym("BTC", "USDT", "USDT", FALSE),
         IF CatalogOfKind = <<>> THEN requested ELSE CatalogOfKind[1] >>

\* C20: resolution returns the first of the four choices that the catalog of
\* the requested product type lists, always a member of that catalog, and
\* fails exactly when that catalog has no USDT-quoted symbol
C20_ResolvesFirstAvailable ==
  (fn.op = "resolve" /\ fn.state # "call") =>
     /\ (fn.state = "threw") = (CatalogOfKind = <<>>)
     /\ fn.state = "returned" =>
          /\ InSeq(CatalogOfKind, fn.result)
          /\ \E k \in 1 .. 4 :
               /\ fn.result = ResolutionChoices[k]
               /\ \A j \in 1 .. (k - 1) : ~InSeq(CatalogOfKind, ResolutionChoices[j])

\* a contract the catalog does not list falls back to BTC/USDT:USDT, which
\* is not the first symbol of the catalog
C20_Witness ==
  /\ fn.op = "resolve" /\ fn.state = "returned" /\ fn.productType = "swap"
  /\ fn.token.base = "SOL"
  /\ fn.result = Sym("BTC", "USDT", "USDT", FALSE)
  /\ CatalogOfKind[1] # fn.result

\* C21: the parser yields one take-profit entry per typed target, in
\* order and with its size, whatever follows the tp clause
C21_OneEntryPerTarget ==
  (fn.op = "parseTps" /\ fn.state = "returned") =>
     /\ Len(fn.result) = Len(fn.items)
     /\ \A k \in DOMAIN fn.items :
          /\ k \in DOMAIN fn.result
          /\ fn.result[k].target = fn.items[k].target
          /\ fn.result[k].size =
               (IF fn.items[k].size = "" THEN "undefined" ELSE fn.items[k].size)

\* neither side nor symbol, and no maintenance or borrow / repay form
NoSideNoSymbol ==
  /\ parsed.side = "undefined" /\ ~parsed.symbol
  /\ ~parsed.closeAll /\ ~parsed.cancelTPs
  /\ ~parsed.spotBorrow /\ ~parsed.spotRepay

\* C22: a command without side and symbol that is no maintenance and no
\* borrow / repay form never gets past the check after parsing: no exchange
\* call of any kind is made and the process exits with code 1
C22_MissingSideAndSymbolFailsFast ==
  NoSideNoSymbol =>
     /\ pc \in {"parse", "exit"}
     /\ calls = <<>>
     /\ (pc = "exit" => exitCode = 1)

C22_Witness == NoSideNoSymbol /\ pc = "exit" /\ exitCode = 1 /\ parsed.dryRun

\* what console.log has written to stdout besides the payload: one line
\* after every accepted order, cancel, borrow or repay ('Opened position:',
\* 'TP reduce-only placed:', 'SL plan placed:', 'Flattened opposite', ...);
\* setPositionMode and setLeverage are not announced
stdoutMessages ==
  SelectSeq(calls, LAMBDA c : /\ c.res = "ok"
                              /\ c.op \notin {"setPositionMode", "setLeverage"})

\* C23: with --json nothing but the JSON payload is written to stdout
C23_JsonStdoutCarriesOnlyPayload ==
  parsed.json => stdoutMessages = <<>>

\* C24: no more requests than the budget go out within a rolling second
C24_RollingSecondWithinBudget ==
  fn.op = "checkRateLimit" => fn.sentPrev + fn.sentNow <= RateBudget

\* a contract trade whose entry was accepted has run to its summary
TradeCompleted ==
  /\ IsTrade /\ parsed.productType = "swap"
  /\ open /\ pc = "exit" /\ exitCode = 0

\* the separate take-profit orders submitted for target k of parsed.tps;
\* the loop runs over parsed.tps.slice(1), so its order i + 1 is target i + 2
TargetCalls(k) ==
  SelectSeq(calls, LAMBDA c : /\ c.site = "tp" /\ c.idx + 1 = k
                              /\ c.type = "limit" /\ c.reduceOnly)

\* C25: under strict one-way a run that placed a separate order for every
\* target beyond the first has placed one for the first target too; without
\* strict the first target is attached to the accepted entry
C25_StrictPlacesEveryTarget ==
  (TradeCompleted /\ Len(parsed.tps) > 0) =>
     IF parsed.oneWayStrict
       THEN (\A k \in 2 .. Len(parsed.tps) : TargetCalls(k) # <<>>)
               => TargetCalls(1) # <<>>
       ELSE \E k \in DOMAIN calls : EntryAccepted(calls[k]) /\ calls[k].inlineTp

\* the position on the side opposing the requested side
OpposingContracts == IF parsed.side = "long" THEN acct.short ELSE acct.long

\* C26: under strict one-way an entry is submitted only when no position
\* opposes the requested side any more, and the pre-flatten submits only
\* reduce-only market orders that close the opposing side
C26_StrictEntryAfterOpposingClosed ==
  (IsTrade /\ parsed.oneWayStrict) =>
     /\ (\E k \in DOMAIN calls : calls[k].site \in {"entry", "entryRetry"})
           => OpposingContracts = 0
     /\ \A k \in DOMAIN calls :
          calls[k].site = "preFlatten" =>
            /\ calls[k].side = openSide
            /\ calls[k].type = "market"
            /\ calls[k].reduceOnly

SizingUnresolved ==
  /\ pc = "tpLoop"
  /\ extraTps[i + 1].size.kind \in {"none", "pct"}

\* C28: whenever a target of unspecified or percent size is about to be
\* sized, the exposure it is sized against is the one the exchange reports
\* at that moment (0 when the position query failed), not a running total
\* kept since an earlier query
C28_SizedAgainstLiveExposure ==
  SizingUnresolved => availableOf(avail) \in {availableOf(acct), 0}

\* the take-profit loop submits an order for a target whose size is a percent
PlacesPercentTarget ==
  /\ pc = "tpLoop"
  /\ extraTps[i + 1].size.kind = "pct"
  /\ Len(calls') = Len(calls) + 1

\* the given percent of an exposure
PercentOfExposure(exposure) == (exposure * extraTps[i + 1].size.v) \div 100

\* C29 as stated: a percent size is that percent of the exposure remaining
\* once the earlier placed targets have been deducted
C29_PercentOfRemainingExposure ==
  [][PlacesPercentTarget =>
       calls'[Len(calls')].size =
         amountToPrecision(market, PercentOfExposure(availableOf(avail)))]_vars

\* the exposure measured before the first separate target: the position the
\* exchange reports, or the order amount when it reports none
MeasuredExposure == { amount } \cup ({ availableOf(acct) } \ { 0 })

\* the take-profit loop handles a target whose size is a percent and whose
\* price can be read
SizesPercentTarget ==
  /\ pc = "tpLoop"
  /\ extraTps[i + 1].size.kind = "pct"
  /\ ~TargetThrows(extraTps[i + 1])
  /\ i' = i + 1

\* C29 amended: a percent size is that percent of the exposure measured once
\* before the first separate target, capped at the exposure remaining after
\* the earlier placed targets and truncated to the amount precision; the
\* target is skipped when the capped size is below the market minimum or
\* truncates to nothing
C29_PercentOfMeasuredExposure ==
  [][SizesPercentTarget =>
       LET capped == Clamp(PercentOfExposure(baseAmount), availableOf(avail))
           size == amountToPrecision(market, capped)
       IN /\ baseAmount \in MeasuredExposure
          /\ IF capped < market.min \/ size = 0
               THEN calls' = calls
               ELSE /\ Len(calls') = Len(calls) + 1
                    /\ calls'[Len(calls')].size = size]_vars

\* a percent-sized target was placed after an earlier target had already
\* reduced the remaining exposure below the measured one
C29_Witness ==
  \E k \in DOMAIN calls :
     /\ calls[k].site = "tp"
     /\ calls[k].res = "ok"
     /\ calls[k].idx = 2
     /\ extraTps[2].size.kind = "pct"
     /\ \E j \in 1 .. (k - 1) : calls[j].site = "tp" /\ calls[j].res = "ok"

\* the orders submitted besides the entry: the closes of the pre-flatten and
\* of the flatten, the separate take-profits and the standalone stop-loss
ExitSites == {"preFlatten", "flatten", "tp", "sl"}

\* the order is on the side that reduces the position it is meant for
OnReducingSide(c) ==
  IF c.site = "flatten"
    THEN \E side \in {"long", "short"} :
            c.side = OppositeOf(side) /\ HadPosition(side)
  ELSE IF c.site = "preFlatten"
    THEN c.side = OppositeOf(IF parsed.side = "long" THEN "short" ELSE "long")
  ELSE c.side = OppositeOf(parsed.side)

\* C30: every order submitted other than the entry is reduce-only and on
\* the side that reduces the position
C30_ExitOrdersReduceOnly ==
  \A k \in DOMAIN calls :
     (calls[k].op = "createOrder" /\ calls[k].site \in ExitSites) =>
        /\ calls[k].reduceOnly
        /\ OnReducingSide(calls[k])

\* the run ended in an error after an entry order was submitted and none
\* was accepted
EntryAborted ==
  /\ pc = "exit" /\ exitCode = 1
  /\ \E k \in DOMAIN calls : calls[k].site \in {"entry", "entryRetry"}
  /\ \A k \in DOMAIN calls : ~EntryAccepted(calls[k])

\* a call of this run that changed the account: an accepted order, or an
\* accepted switch of the position mode once the initial mode was set
ChangedAccount(c) ==
  /\ c.res = "ok"
  /\ \/ c.op = "createOrder"
     \/ c.op = "setPositionMode" /\ c.site # "init"

\* C31: when the run aborts because the entry failed, no call of the run has
\* changed the account: no position was opened or closed and the position
\* mode was not switched
C31_EntryFailureLeavesAccountUntouched ==
  EntryAborted => /\ ~open
                  /\ \A k \in DOMAIN calls : ~ChangedAccount(calls[k])

\* the entry orders and the fallback mode switches submitted by the run
EntryCalls ==
  SelectSeq(calls, LAMBDA c : c.site \in {"entry", "entryRetry"})
FallbackSwitches ==
  SelectSeq(calls, LAMBDA c : c.site = "fallback" /\ c.op = "setPositionMode")

\* C32: the entry is submitted at most twice and the mode is switched to
\* hedged at most once; after a failed switch or a failed resubmission the
\* run is over with an error and the failed call is the last of the run
C32_BoundedEntryAttempts ==
  /\ Len(EntryCalls) <= 2
  /\ Len(FallbackSwitches) <= 1
  /\ \A k \in DOMAIN calls :
       (calls[k].site \in {"fallback", "entryRetry"} /\ calls[k].res # "ok") =>
          /\ k = Len(calls)
          /\ pc = "exit" /\ exitCode = 1

\* the fallback ran to its end and failed: a second entry was submitted
\* after the switch and was refused
C32_Witness ==
  /\ Len(EntryCalls) = 2
  /\ Len(FallbackSwitches) = 1
  /\ calls[Len(calls)].site = "entryRetry"
  /\ calls[Len(calls)].res # "ok"

\* the run is over and its entry was accepted for an intent with a stop-loss
ProtectedRunOver ==
  /\ IsTrade /\ parsed.productType = "swap"
  /\ parsed.sl /\ open /\ pc = "exit"

\* the stop-loss requests of the run: the one attached to the accepted
\* entry and the standalone orders
InlineStops ==
  SelectSeq(calls, LAMBDA c : EntryAccepted(c) /\ c.inlineSl)
StandaloneStops == SelectSeq(calls, LAMBDA c : c.site = "sl")

EffectiveHedgedAt(c) ==
  IF c.site = "entry" THEN parsed.positionMode = "hedged"
  ELSE IF c.site = "entryRetry" THEN TRUE
  ELSE posMode = "hedged"

\* C34: the entry, take-profit and stop-loss orders carry hedged = true
\* exactly when the effective position mode is hedged
C34_HedgedFlagMatchesMode ==
  \A k \in DOMAIN calls :
     calls[k].site \in {"entry", "entryRetry", "tp", "sl"} =>
        (calls[k].hedged <=> EffectiveHedgedAt(calls[k]))

\* the position mode the mode tokens of the command ask for: one-way unless
\* 'hedged' is the only mode token
ModeOfTokens(tok) == IF tok.hedged /\ ~tok.oneway THEN "hedged" ELSE "oneway"

\* C37: the position mode of a parsed command is the one its mode tokens
\* ask for, one-way when there is none, whatever the flags
\* --oneway-strict and --no-hedged-fallback are
C37_ModeFromModeTokensOnly ==
  (fn.op = "parseCommand" /\ fn.state = "returned") =>
     fn.posMode = ModeOfTokens(fn.tok)

\* the command is one of the maintenance forms
IsMaintenance == parsed.closeAll \/ parsed.cancelTPs

\* a mode conflict has triggered the hedged fallback of the flatten
FlattenFallbackTriggered ==
  \/ pc = "flattenSwitch"
  \/ SwitchesOfFlatten # <<>>

\* C38: a maintenance command whose hedged fallback was not triggered has
\* issued no set-position-mode call
C38_MaintenanceKeepsPositionMode ==
  (IsMaintenance /\ ~FlattenFallbackTriggered) =>
     \A k \in DOMAIN calls : calls[k].op # "setPositionMode"

\* C36: no take-profit order of size 0 is submitted
C36_NoZeroSizeTakeProfit ==
  \A k \in DOMAIN calls : calls[k].site = "tp" => calls[k].size > 0

\* on a market without a minimum size the loop has gone over all its
\* targets, all of them readable, with no exposure left to place the last
\* of them, and has submitted fewer orders than targets
C36_Witness ==
  /\ open /\ market.min = 0
  /\ Len(extraTps) > 0 /\ i = Len(extraTps)
  /\ \A k \in DOMAIN extraTps : ~TargetThrows(extraTps[k])
  /\ availableOf(avail) = 0
  /\ Len(CallsAt("tp")) < Len(extraTps)
  /\ \A k \in DOMAIN calls : calls[k].site = "tp" => calls[k].res = "ok"

\* the command was both previewed and run live, and the live run placed
\* the entry and the target
PreviewedAndPlaced ==
  /\ fn.op = "preview"
  /\ fn.previewed = "yes"
  /\ fn.placed = "yes"

IsPlacing(c) == c.kind \in {"entry", "sl", "tp"}
PlacingCalls == SelectSeq(fn.log, IsPlacing)
StepOf(c) == IF c.kind = "entry" THEN 0 - 1 ELSE IF c.kind = "sl" THEN 0 ELSE c.idx

\* C39: the placing calls come in the order entry, stop-loss plan,
\* take-profit plans by index, each plan directly after its predecessor;
\* a failed placing call is the last call and the tool has returned an
\* error; the orders on the exchange are exactly the accepted ones
C39_OrderedStopAtFirstFailure ==
  IsTool =>
    LET p == PlacingCalls
    IN /\ \A k \in DOMAIN p :
            /\ k = 1 => p[k].kind = "entry"
            /\ k > 1 => /\ StepOf(p[k - 1]) < StepOf(p[k])
                        /\ p[k].kind = "tp" =>
                             p[k].idx = (IF p[k - 1].kind = "tp" THEN p[k - 1].idx ELSE 0) + 1
                        /\ p[k].kind = "sl" => fn.args.stopLoss
                        /\ p[k - 1].res = "ok"
       /\ \A k \in DOMAIN fn.log :
            (IsPlacing(fn.log[k]) /\ fn.log[k].res # "ok") =>
               /\ k = Len(fn.log)
               /\ fn.pc = "returned" /\ fn.isError
       /\ fn.accepted = { <<p[k].kind, p[k].idx>> : k \in { j \in DOMAIN p : p[j].res = "ok" } }

\* the second take-profit plan of three failed after the entry, the
\* stop-loss plan and the first take-profit plan were accepted
C39_Witness ==
  /\ IsTool /\ fn.pc = "returned" /\ fn.isError
  /\ fn.args.stopLoss /\ fn.args.takeProfits = 3
  /\ Len(PlacingCalls) = 4
  /\ PlacingCalls[4].kind = "tp" /\ PlacingCalls[4].idx = 2
  /\ PlacingCalls[4].res # "ok"
  /\ fn.accepted = { <<"entry", 0>>, <<"sl", 0>>, <<"tp", 1>> }

====
